---- MODULE Spec2Model ----
(***************************************************************************)
(* Verification model of the axel-backend resilience and storage layer.    *)
(*                                                                         *)
(*   Part 1  CircuitBreaker            backend/core/utils/circuit_breaker.py *)
(*   Part 2  TTLCache                  backend/core/utils/cache.py           *)
(*   Part 3  SQLiteConnectionManager   backend/memory/recent/connection.py   *)
(*                                                                         *)
(* Every component has its own specification (SpecCircuit, SpecCache,      *)
(* SpecConn); the variables of the other components stay at their initial  *)
(* values under it.  Handlers are written as functions from the object's   *)
(* fields to its fields after the call, statement by statement.            *)
(***************************************************************************)
EXTENDS Integers, Sequences, FiniteSets, TLC

VARIABLES
    circuit,      \* the fields of one CircuitBreaker (config and stats included)
    now,          \* time.time(), in whole seconds
    cb_last,      \* observation: the last step (a call or a clock tick), its result, the fields before it
    g_consec,     \* observation: failures recorded since the last record_success / since Closed was entered
    g_hoSucc,     \* observation: record_success calls since HalfOpen was entered
    g_admitted,   \* observation: calls admitted in the current HalfOpen period, not yet completed
    g_lastFail,   \* observation: the time of the last record_failure call
    ttlcache,     \* the fields of one TTLCache (maxsize, ttl, the OrderedDict, stats)
    ca_last,      \* observation: the last step on the cache, its result, the entries it removed
    g_lru,        \* observation: the cached keys, least recently used first
    g_set,        \* observation: per key, the time and value of its last set while that entry stands
    manager,      \* the fields of one SQLiteConnectionManager: _connection and _lock
    database,     \* the rows committed to the database file
    next_id,      \* the next connection handle and the next row to be written
    open_handles, \* the sqlite3 connections that were opened and not closed since
    scope,        \* per thread, the scope it is in: none, get_connection or transaction
    co_last,      \* observation: the last step of a thread and how it ended
    g_txDone,     \* observation: rows written by transaction() scopes whose body completed
    g_txRaised,   \* observation: rows written by transaction() scopes whose body raised, with the exception
    g_getRaised,  \* observation: rows written, and not committed, by get_connection() scopes whose body raised, with the exception
    ar_task,      \* per thread, the repository or summarizer call it is in and that call's locals
    next_msg,     \* the next message to be appended
    ar_last,      \* observation: the last repository or summarizer step and its result
    g_appended,   \* observation: per session, the messages of the appends that returned True, in that order
    store,        \* the long-term store: per id, the memory stored under it
    mem_config,   \* MemoryConfig: PRESERVE_REPETITIONS, DECAY_DELETE_THRESHOLD, MIN_RETENTION
    mem_last,     \* observation: the last pass over the store, the store before it, what it did
    graph,        \* the fields of one KnowledgeGraph: entities and _name_index
    graph_file,   \* the entities in the JSON file at persist_path, or NoFile
    kg_count,     \* the calls made so far, per operation; per relation id, the add_relation calls that returned it; whether a weight outside [0,1] was supplied
    kg_saved,     \* observation: the last document that a save wrote completely, and the graph it was written from
    kg_last,      \* observation: the last call on the graph and what it returned
    rag,          \* the fields of one GraphRAG besides its graph: whether it has a client, and its config
    gc_db,        \* the tables the maintenance script works on
    gc_run,       \* the maintenance run: the phase it is at, its report and its error list
    gc_last,      \* observation: the last step of the maintenance run and the tables before it
    gw,           \* the gemini wrapper module: the singleton, and each caller's position and locals
    cd            \* one @cached function: its cache, and each caller's position and locals

cbVars == <<circuit, cb_last, g_consec, g_hoSucc, g_admitted, g_lastFail>>

caVars == <<ttlcache, ca_last, g_lru, g_set>>

coVars == <<manager, database, next_id, open_handles, scope, co_last, g_txDone, g_txRaised, g_getRaised>>

arVars == <<ar_task, next_msg, ar_last, g_appended>>

memVars == <<store, mem_config, mem_last>>

kgVars == <<graph, graph_file, kg_count, kg_saved, kg_last>>

gcVars == <<gc_db, gc_run, gc_last>>

laterVars == <<rag, gcVars, gw, cd>>

vars == <<circuit, now, cb_last, g_consec, g_hoSucc, g_admitted, g_lastFail,
          ttlcache, ca_last, g_lru, g_set,
          manager, database, next_id, open_handles, scope, co_last, g_txDone, g_txRaised, g_getRaised,
          ar_task, next_msg, ar_last, g_appended,
          store, mem_config, mem_last,
          graph, graph_file, kg_count, kg_saved, kg_last,
          rag, gc_db, gc_run, gc_last, gw, cd>>

notCircuit == <<caVars, coVars, arVars, memVars, kgVars, laterVars>>     \* what a step of the circuit leaves alone
notCache == <<cbVars, coVars, arVars, memVars, kgVars, laterVars>>       \* what a step of the cache leaves alone
notConn == <<now, cbVars, caVars, arVars, memVars, kgVars, laterVars>>   \* what a step of the connection manager leaves alone

(***************************************************************************)
(* Bounds of the model.                                                    *)
(***************************************************************************)
MaxThreshold == 2      \* failure_threshold and success_threshold range over 1..MaxThreshold
MaxHalfOpenCalls == 2  \* half_open_max_calls ranges over 1..MaxHalfOpenCalls
MaxTimeout == 2        \* timeout_seconds ranges over 1..MaxTimeout
MaxTime == 3           \* the clock runs from 0 to MaxTime
MaxCalls == 4          \* recorded calls (stats.total_calls) per run
MaxInFlight == 3       \* admitted, uncompleted calls tracked in a HalfOpen period
MaxSize == 2           \* maxsize ranges over 1..MaxSize
MaxTtl == 2            \* ttl_seconds ranges over 1..MaxTtl
MaxCacheTime == 1      \* under SpecCache the clock runs from 0 to MaxCacheTime
MaxGets == 2           \* get calls (stats.hits + stats.misses) per run
MaxEvictions == 1      \* evictions (stats.evictions) after which no further set is made
MaxRows == 3           \* rows written per run
MaxConnects == 2       \* sqlite3.connect calls per run
MaxAppends == 4        \* append_turn calls per run
MaxTurns == 2          \* turns of a session before a summarizer run
MaxRowId == 10         \* row ids issued per run
MaxLogs == 1           \* interaction log rows per run

(***************************************************************************)
(* Part 1.  CircuitBreaker                                                 *)
(***************************************************************************)
CLOSED == "closed"
OPEN == "open"
HALF_OPEN == "half_open"

CircuitState == {CLOSED, OPEN, HALF_OPEN}

NoTime == -1   \* None in an Optional[float] timestamp

CircuitConfig(ft, st, to, hmax) ==
    [failure_threshold |-> ft, success_threshold |-> st,
     timeout_seconds |-> to, half_open_max_calls |-> hmax]

CircuitStats ==
    [total_calls |-> 0, successful_calls |-> 0, failed_calls |-> 0,
     rejected_calls |-> 0, state_changes |-> 0,
     last_failure_time |-> NoTime, last_success_time |-> NoTime]

\* CircuitBreaker.__init__
NewCircuit(config) ==
    [config |-> config,
     state |-> CLOSED,
     failure_count |-> 0,
     success_count |-> 0,
     last_failure_time |-> 0,
     half_open_calls |-> 0,
     stats |-> CircuitStats]

\* CircuitBreaker._transition_to
TransitionTo(self, new_state) ==
    IF self.state # new_state
    THEN [self EXCEPT !.state = new_state, !.stats.state_changes = @ + 1]
    ELSE self

\* Faulty variant of can_execute: the timeout test written with > instead of >=.
CanExecuteStrict(self, t) ==
    IF self.state = CLOSED
    THEN [self |-> self, ret |-> TRUE]
    ELSE IF self.state = OPEN
    THEN LET elapsed == t - self.last_failure_time IN
         IF elapsed > self.config.timeout_seconds
         THEN LET s1 == TransitionTo(self, HALF_OPEN)
                  s2 == [s1 EXCEPT !.success_count = 0]
                  s3 == [s2 EXCEPT !.half_open_calls = 0]
              IN [self |-> s3, ret |-> TRUE]
         ELSE [self |-> self, ret |-> FALSE]
    ELSE IF self.half_open_calls < self.config.half_open_max_calls
    THEN [self |-> self, ret |-> TRUE]
    ELSE [self |-> self, ret |-> FALSE]

\* Faulty variant of can_execute: the timeout branch taken for every state but HalfOpen.
CanExecuteClosedTimesOut(self, t) ==
    IF self.state # HALF_OPEN
    THEN LET elapsed == t - self.last_failure_time IN
         IF elapsed >= self.config.timeout_seconds
         THEN LET s1 == TransitionTo(self, HALF_OPEN)
                  s2 == [s1 EXCEPT !.success_count = 0]
                  s3 == [s2 EXCEPT !.half_open_calls = 0]
              IN [self |-> s3, ret |-> TRUE]
         ELSE [self |-> self, ret |-> self.state = CLOSED]
    ELSE IF self.half_open_calls < self.config.half_open_max_calls
    THEN [self |-> self, ret |-> TRUE]
    ELSE [self |-> self, ret |-> FALSE]

\* CircuitBreaker.can_execute at time t: the fields after the call and the value returned
CanExecute(self, t) ==
    IF self.state = CLOSED
    THEN [self |-> self, ret |-> TRUE]
    ELSE IF self.state = OPEN
    THEN LET elapsed == t - self.last_failure_time IN
         IF elapsed >= self.config.timeout_seconds
         THEN LET s1 == TransitionTo(self, HALF_OPEN)
                  s2 == [s1 EXCEPT !.success_count = 0]
                  s3 == [s2 EXCEPT !.half_open_calls = 0]
              IN [self |-> s3, ret |-> TRUE]
         ELSE [self |-> self, ret |-> FALSE]
    ELSE IF self.half_open_calls < self.config.half_open_max_calls
    THEN [self |-> self, ret |-> TRUE]
    ELSE [self |-> self, ret |-> FALSE]

\* Faulty variant of record_success: a success outside HalfOpen leaves the failure counter alone.
RecordSuccessKeepsCount(self, t) ==
    LET s1 == [self EXCEPT !.stats.total_calls = @ + 1,
                           !.stats.successful_calls = @ + 1,
                           !.stats.last_success_time = t]
    IN IF s1.state = HALF_OPEN
       THEN LET s2 == [s1 EXCEPT !.success_count = @ + 1, !.half_open_calls = @ - 1]
            IN IF s2.success_count >= s2.config.success_threshold
               THEN [TransitionTo(s2, CLOSED) EXCEPT !.failure_count = 0]
               ELSE s2
       ELSE s1

\* Faulty variant of record_success: closing the circuit leaves the failure counter alone.
RecordSuccessNoResetOnClose(self, t) ==
    LET s1 == [self EXCEPT !.stats.total_calls = @ + 1,
                           !.stats.successful_calls = @ + 1,
                           !.stats.last_success_time = t]
    IN IF s1.state = HALF_OPEN
       THEN LET s2 == [s1 EXCEPT !.success_count = @ + 1, !.half_open_calls = @ - 1]
            IN IF s2.success_count >= s2.config.success_threshold
               THEN TransitionTo(s2, CLOSED)
               ELSE s2
       ELSE [s1 EXCEPT !.failure_count = 0]

\* CircuitBreaker.record_success at time t
RecordSuccess(self, t) ==
    LET s1 == [self EXCEPT !.stats.total_calls = @ + 1,
                           !.stats.successful_calls = @ + 1,
                           !.stats.last_success_time = t]
    IN IF s1.state = HALF_OPEN
       THEN LET s2 == [s1 EXCEPT !.success_count = @ + 1, !.half_open_calls = @ - 1]
            IN IF s2.success_count >= s2.config.success_threshold
               THEN [TransitionTo(s2, CLOSED) EXCEPT !.failure_count = 0]
               ELSE s2
       ELSE [s1 EXCEPT !.failure_count = 0]

\* Faulty variant of record_failure: a failure in HalfOpen leaves the half-open call counter alone.
RecordFailureKeepsHalfOpenCalls(self, t) ==
    LET s1 == [self EXCEPT !.stats.total_calls = @ + 1,
                           !.stats.failed_calls = @ + 1,
                           !.stats.last_failure_time = t]
        s2 == [s1 EXCEPT !.failure_count = @ + 1, !.last_failure_time = t]
    IN IF s2.state = HALF_OPEN
       THEN TransitionTo(s2, OPEN)
       ELSE IF s2.failure_count >= s2.config.failure_threshold
       THEN TransitionTo(s2, OPEN)
       ELSE s2

\* CircuitBreaker.record_failure at time t
RecordFailure(self, t) ==
    LET s1 == [self EXCEPT !.stats.total_calls = @ + 1,
                           !.stats.failed_calls = @ + 1,
                           !.stats.last_failure_time = t]
        s2 == [s1 EXCEPT !.failure_count = @ + 1, !.last_failure_time = t]
    IN IF s2.state = HALF_OPEN
       THEN [TransitionTo(s2, OPEN) EXCEPT !.half_open_calls = 0]
       ELSE IF s2.failure_count >= s2.config.failure_threshold
       THEN TransitionTo(s2, OPEN)
       ELSE s2

\* CircuitBreaker.record_rejected
RecordRejected(self) ==
    [self EXCEPT !.stats.total_calls = @ + 1, !.stats.rejected_calls = @ + 1]

\* CircuitBreaker.reset
Reset(self) ==
    [self EXCEPT !.state = CLOSED, !.failure_count = 0,
                 !.success_count = 0, !.half_open_calls = 0]

\* CircuitBreaker.get_timeout_remaining at time t
GetTimeoutRemaining(self, t) ==
    IF self.state # OPEN
    THEN 0
    ELSE LET remaining == self.config.timeout_seconds - (t - self.last_failure_time)
         IN IF remaining > 0 THEN remaining ELSE 0

(***************************************************************************)
(* The circuit as a state machine: one action per public call.  The        *)
(* handlers hold no await, so each call is one atomic step of the loop.    *)
(***************************************************************************)
Snapshot(self) ==
    [state |-> self.state, failure_count |-> self.failure_count,
     success_count |-> self.success_count, half_open_calls |-> self.half_open_calls,
     last_failure_time |-> self.last_failure_time]

Observed(op, ret, self) == [op |-> op, ret |-> ret, pre |-> Snapshot(self)]

\* The observation counters after a call that took the circuit from `old` to `new`.
ConsecAfter(op, old, new) ==
    IF op = "record_success" \/ op = "reset" THEN 0
    ELSE IF new.state = CLOSED /\ old.state # CLOSED THEN 0
    ELSE IF op = "record_failure" THEN g_consec + 1
    ELSE g_consec

HoSuccAfter(op, old, new) ==
    IF new.state = HALF_OPEN /\ old.state # HALF_OPEN THEN 0
    ELSE IF op = "record_success" /\ old.state = HALF_OPEN THEN g_hoSucc + 1
    ELSE g_hoSucc

AdmittedAfter(op, ret, old, new) ==
    IF new.state # HALF_OPEN THEN 0
    ELSE IF op = "can_execute" /\ ret THEN (IF old.state = HALF_OPEN THEN g_admitted + 1 ELSE 1)
    ELSE IF op \in {"record_success", "record_failure"} /\ g_admitted > 0 THEN g_admitted - 1
    ELSE g_admitted

Observe(op, ret, new) ==
    /\ cb_last' = Observed(op, ret, circuit)
    /\ g_consec' = ConsecAfter(op, circuit, new)
    /\ g_hoSucc' = HoSuccAfter(op, circuit, new)
    /\ g_admitted' = AdmittedAfter(op, ret, circuit, new)
    /\ g_lastFail' = IF op = "record_failure" THEN now ELSE g_lastFail

InitCircuit ==
    /\ \E ft \in 1..MaxThreshold, st \in 1..MaxThreshold,
          to \in 1..MaxTimeout, hmax \in 1..MaxHalfOpenCalls :
          circuit = NewCircuit(CircuitConfig(ft, st, to, hmax))
    /\ cb_last = Observed("init", TRUE, circuit)
    /\ g_consec = 0
    /\ g_hoSucc = 0
    /\ g_admitted = 0
    /\ g_lastFail = NoTime

Tick ==
    /\ now < MaxTime
    /\ now' = now + 1
    /\ cb_last' = Observed("tick", TRUE, circuit)
    /\ UNCHANGED <<circuit, g_consec, g_hoSucc, g_admitted, g_lastFail>>
    /\ UNCHANGED notCircuit

CallCanExecute ==
    /\ g_admitted < MaxInFlight
    /\ LET r == CanExecute(circuit, now) IN
         /\ circuit' = r.self
         /\ Observe("can_execute", r.ret, r.self)
    /\ UNCHANGED <<now, notCircuit>>

CallRecordSuccess ==
    /\ circuit.stats.total_calls < MaxCalls
    /\ circuit' = RecordSuccess(circuit, now)
    /\ Observe("record_success", TRUE, RecordSuccess(circuit, now))
    /\ UNCHANGED <<now, notCircuit>>

CallRecordFailure ==
    /\ circuit.stats.total_calls < MaxCalls
    /\ circuit' = RecordFailure(circuit, now)
    /\ Observe("record_failure", TRUE, RecordFailure(circuit, now))
    /\ UNCHANGED <<now, notCircuit>>

CallRecordRejected ==
    /\ circuit.stats.total_calls < MaxCalls
    /\ circuit' = RecordRejected(circuit)
    /\ Observe("record_rejected", TRUE, RecordRejected(circuit))
    /\ UNCHANGED <<now, notCircuit>>

CallReset ==
    /\ circuit' = Reset(circuit)
    /\ Observe("reset", TRUE, Reset(circuit))
    /\ UNCHANGED <<now, notCircuit>>

NextCircuit ==
    \/ Tick
    \/ CallCanExecute
    \/ CallRecordSuccess
    \/ CallRecordFailure
    \/ CallRecordRejected
    \/ CallReset

(***************************************************************************)
(* Part 2.  TTLCache                                                       *)
(*                                                                         *)
(* _cache is an OrderedDict: here a sequence of entries in dictionary      *)
(* order, first inserted first.  Every method body runs under the cache's  *)
(* asyncio lock and holds no await, so each call is one atomic step.       *)
(***************************************************************************)
CacheKeys == {"A", "B", "C"}   \* the keys used
CacheValues == {"v", "w"}      \* the values stored

None == "None"     \* the value returned with a miss
NoKey == "-"       \* no key: a step that names none

CacheStats == [hits |-> 0, misses |-> 0, evictions |-> 0]

\* TTLCache.__init__
NewCache(maxsize, ttl_seconds) ==
    [maxsize |-> maxsize, ttl |-> ttl_seconds, cache |-> <<>>, stats |-> CacheStats]

\* OrderedDict: the keys in dictionary order, and `key in d`
KeysOf(d) == [i \in 1..Len(d) |-> d[i].key]
Contains(d, key) == \E i \in 1..Len(d) : d[i].key = key

\* OrderedDict.__getitem__
Item(d, key) == d[CHOOSE i \in 1..Len(d) : d[i].key = key]

\* OrderedDict.__delitem__
DelItem(d, key) == SelectSeq(d, LAMBDA e : e.key # key)

\* OrderedDict.move_to_end(key)
MoveToEnd(d, key) == Append(DelItem(d, key), Item(d, key))

\* OrderedDict.__setitem__: a present key keeps its position, a new key goes last
SetItem(d, key, value, timestamp) ==
    IF Contains(d, key)
    THEN [i \in 1..Len(d) |->
            IF d[i].key = key
            THEN [key |-> key, value |-> value, timestamp |-> timestamp]
            ELSE d[i]]
    ELSE Append(d, [key |-> key, value |-> value, timestamp |-> timestamp])

\* Faulty variant of get: a hit leaves the entry where it is in the dictionary order.
GetNoMoveToEnd(self, key, t) ==
    IF ~Contains(self.cache, key)
    THEN [self |-> [self EXCEPT !.stats.misses = @ + 1], ret |-> <<FALSE, None>>]
    ELSE LET entry == Item(self.cache, key) IN
         IF t - entry.timestamp >= self.ttl
         THEN [self |-> [self EXCEPT !.cache = DelItem(@, key),
                                     !.stats.misses = @ + 1,
                                     !.stats.evictions = @ + 1],
               ret |-> <<FALSE, None>>]
         ELSE [self |-> [self EXCEPT !.stats.hits = @ + 1],
               ret |-> <<TRUE, entry.value>>]

\* Faulty variant of get: a hit restarts the entry's time to live.
GetRefreshesTimestamp(self, key, t) ==
    IF ~Contains(self.cache, key)
    THEN [self |-> [self EXCEPT !.stats.misses = @ + 1], ret |-> <<FALSE, None>>]
    ELSE LET entry == Item(self.cache, key) IN
         IF t - entry.timestamp >= self.ttl
         THEN [self |-> [self EXCEPT !.cache = DelItem(@, key),
                                     !.stats.misses = @ + 1,
                                     !.stats.evictions = @ + 1],
               ret |-> <<FALSE, None>>]
         ELSE [self |-> [self EXCEPT !.cache = Append(DelItem(@, key),
                                                     [entry EXCEPT !.timestamp = t]),
                                     !.stats.hits = @ + 1],
               ret |-> <<TRUE, entry.value>>]

\* TTLCache.get at time t: the fields after the call and the pair returned
Get(self, key, t) ==
    IF ~Contains(self.cache, key)
    THEN [self |-> [self EXCEPT !.stats.misses = @ + 1], ret |-> <<FALSE, None>>]
    ELSE LET entry == Item(self.cache, key) IN
         IF t - entry.timestamp >= self.ttl
         THEN [self |-> [self EXCEPT !.cache = DelItem(@, key),
                                     !.stats.misses = @ + 1,
                                     !.stats.evictions = @ + 1],
               ret |-> <<FALSE, None>>]
         ELSE [self |-> [self EXCEPT !.cache = MoveToEnd(@, key),
                                     !.stats.hits = @ + 1],
               ret |-> <<TRUE, entry.value>>]

\* TTLCache.set, the loop: while len(_cache) >= maxsize: popitem(last=False)
RECURSIVE EvictWhileFull(_)
EvictWhileFull(self) ==
    IF Len(self.cache) >= self.maxsize
    THEN EvictWhileFull([self EXCEPT !.cache = Tail(@), !.stats.evictions = @ + 1])
    ELSE self

\* TTLCache.set at time t
Set(self, key, value, t) ==
    [EvictWhileFull(self) EXCEPT !.cache = SetItem(@, key, value, t)]

\* TTLCache.invalidate
Invalidate(self, key) ==
    IF Contains(self.cache, key)
    THEN [self |-> [self EXCEPT !.cache = DelItem(@, key)], ret |-> TRUE]
    ELSE [self |-> self, ret |-> FALSE]

\* TTLCache.clear
Clear(self) ==
    [self |-> [self EXCEPT !.cache = <<>>], ret |-> Len(self.cache)]

(***************************************************************************)
(* The cache as a state machine, with the observations the claims need:    *)
(*   g_lru  the recency order the claims define: a key becomes the most    *)
(*          recently used when it is inserted and on every get hit, and     *)
(*          leaves the order when it leaves the cache;                      *)
(*   g_set  for each key the time and value of its last set, dropped when   *)
(*          the key is invalidated, cleared, expired or evicted.            *)
(***************************************************************************)
NoEntry == [at |-> NoTime, val |-> None]   \* no standing set

Without(seq, key) == SelectSeq(seq, LAMBDA k : k # key)

SeqToSet(seq) == {seq[i] : i \in 1..Len(seq)}

\* The entries of `old` that are gone in `new`, in order.
Gone(old, new) == SelectSeq(old, LAMBDA e : ~\E i \in 1..Len(new) : new[i] = e)

\* What is kept of a step: the call and its result; for a set the entries it evicted
\* and the key that was least recently used if the cache was full before it; for a
\* get the standing set of the key before it.
CacheObserved(op, key, ret, gone) ==
    [op |-> op, key |-> key, ret |-> ret, gone |-> gone,
     victim |-> IF op = "set" /\ Len(ttlcache.cache) >= ttlcache.maxsize
                THEN Head(g_lru) ELSE NoKey,
     stood |-> IF op = "get" THEN g_set[key] ELSE NoEntry]

InitCache ==
    /\ \E maxsize \in 1..MaxSize, ttl \in 1..MaxTtl : ttlcache = NewCache(maxsize, ttl)
    /\ g_lru = <<>>
    /\ g_set = [k \in CacheKeys |-> NoEntry]
    /\ ca_last = CacheObserved("init", NoKey, <<FALSE, None>>, <<>>)

CacheTick ==
    /\ now < MaxCacheTime
    /\ now' = now + 1
    /\ ca_last' = CacheObserved("tick", NoKey, <<FALSE, None>>, <<>>)
    /\ UNCHANGED <<ttlcache, g_lru, g_set, notCache>>

CallGet(key) ==
    /\ ttlcache.stats.hits + ttlcache.stats.misses < MaxGets
    /\ LET r == Get(ttlcache, key, now) IN
         /\ ttlcache' = r.self
         /\ ca_last' = CacheObserved("get", key, r.ret, <<>>)
         /\ g_lru' = IF r.ret[1] THEN Append(Without(g_lru, key), key)
                     ELSE Without(g_lru, key)
         /\ g_set' = IF r.ret[1] THEN g_set ELSE [g_set EXCEPT ![key] = NoEntry]
    /\ UNCHANGED <<now, notCache>>

CallSet(key, value) ==
    /\ ttlcache.stats.evictions < MaxEvictions
    /\ LET new == Set(ttlcache, key, value, now)
           full == EvictWhileFull(ttlcache)
           evicted == SeqToSet(KeysOf(ttlcache.cache)) \ SeqToSet(KeysOf(full.cache))
           kept == SelectSeq(g_lru, LAMBDA k : k \notin evicted)
       IN
         /\ ttlcache' = new
         /\ ca_last' = CacheObserved("set", key, <<FALSE, None>>,
                                     Gone(ttlcache.cache, full.cache))
         /\ g_lru' = IF key \in SeqToSet(kept) THEN kept ELSE Append(kept, key)
         /\ g_set' = [k \in CacheKeys |->
                        IF k = key THEN [at |-> now, val |-> value]
                        ELSE IF k \in evicted THEN NoEntry
                        ELSE g_set[k]]
    /\ UNCHANGED <<now, notCache>>

CallInvalidate(key) ==
    /\ LET r == Invalidate(ttlcache, key) IN
         /\ ttlcache' = r.self
         /\ ca_last' = CacheObserved("invalidate", key, <<r.ret, None>>, <<>>)
    /\ g_lru' = Without(g_lru, key)
    /\ g_set' = [g_set EXCEPT ![key] = NoEntry]
    /\ UNCHANGED <<now, notCache>>

CallClear ==
    /\ LET r == Clear(ttlcache) IN
         /\ ttlcache' = r.self
         /\ ca_last' = CacheObserved("clear", NoKey, <<FALSE, r.ret>>, <<>>)
    /\ g_lru' = <<>>
    /\ g_set' = [k \in CacheKeys |-> NoEntry]
    /\ UNCHANGED <<now, notCache>>

NextCache ==
    \/ CacheTick
    \/ \E key \in CacheKeys : CallGet(key)
    \/ \E key \in CacheKeys, value \in CacheValues : CallSet(key, value)
    \/ \E key \in CacheKeys : CallInvalidate(key)
    \/ CallClear

(***************************************************************************)
(* Part 3.  SQLiteConnectionManager                                        *)
(*                                                                         *)
(* A sqlite3 connection in the module's default (legacy) transaction       *)
(* control: a data-changing statement outside a transaction first opens    *)
(* one, commit() makes the pending rows durable, rollback() and close()    *)
(* drop them, and every statement on the connection sees the committed     *)
(* rows and its own pending ones.  Each INSERT writes a fresh row.         *)
(***************************************************************************)
Threads == {"t1", "t2"}
NoThread == "-"

\* Exceptions a scope body raises; OperationalError is raised by sqlite3 itself.
\* KeyboardInterrupt derives from BaseException only, the others from Exception.
BodyExceptions == {"ValueError", "KeyboardInterrupt"}
IsException(e) == e \in {"ValueError", "OperationalError"}

NoConnection == [id |-> 0]   \* _connection is None

\* sqlite3.connect(...) followed by the three PRAGMA statements
Connect(id) ==
    [id |-> id, check_same_thread |-> FALSE, timeout |-> 10,
     journal_mode |-> "wal", busy_timeout |-> 5000, synchronous |-> "NORMAL",
     in_transaction |-> FALSE, pending |-> {}, deleted |-> {}]

\* conn.execute("BEGIN IMMEDIATE"): fails inside a transaction
BeginImmediate(conn) ==
    IF conn.in_transaction
    THEN [conn |-> conn, raised |-> "OperationalError"]
    ELSE [conn |-> [conn EXCEPT !.in_transaction = TRUE], raised |-> "ok"]

\* conn.execute("INSERT ..."): opens a transaction when none is open
ExecuteInsert(conn, row) ==
    [conn EXCEPT !.in_transaction = TRUE, !.pending = @ \cup {row}]

\* conn.execute("DELETE ..."): opens a transaction when none is open; rows the
\* transaction itself wrote are dropped, stored rows are marked deleted
ExecuteDelete(conn, rows) ==
    [conn EXCEPT !.in_transaction = TRUE, !.pending = @ \ rows,
                 !.deleted = @ \cup (rows \ conn.pending)]

\* conn.commit(): the connection afterwards, and the rows stored after it
CommitConn(conn) == [conn EXCEPT !.in_transaction = FALSE, !.pending = {}, !.deleted = {}]
Committed(conn, db) == (db \ conn.deleted) \cup conn.pending

\* conn.rollback()
RollbackConn(conn) == [conn EXCEPT !.in_transaction = FALSE, !.pending = {}, !.deleted = {}]

\* What a statement run on the manager's connection sees.
Visible ==
    IF manager.connection = NoConnection THEN database
    ELSE Committed(manager.connection, database)

\* threading.RLock
NewLock == [owner |-> NoThread, count |-> 0]

\* Faulty variant of acquire: the lock excludes nobody.
CanAcquireUnlocked(lock, t) == TRUE

CanAcquire(lock, t) == lock.owner \in {NoThread, t}
Acquire(lock, t) == [owner |-> t, count |-> lock.count + 1]
Release(lock) ==
    IF lock.count = 1 THEN NewLock ELSE [lock EXCEPT !.count = @ - 1]

\* SQLiteConnectionManager.__init__
NewManager == [connection |-> NoConnection, lock |-> NewLock]

\* get_connection, up to its yield: take the lock, connect if there is no connection
EnterGetConnection(self, t, id) ==
    [self EXCEPT !.lock = Acquire(@, t),
                 !.connection = IF @ = NoConnection THEN Connect(id) ELSE @]

\* get_connection, exception e thrown in at its yield: `except Exception` rolls
\* back and re-raises; any other exception passes through; the lock is released
GetConnectionRaised(self, e) ==
    IF IsException(e)
    THEN [self EXCEPT !.connection = RollbackConn(@), !.lock = Release(@)]
    ELSE [self EXCEPT !.lock = Release(@)]

\* get_connection, its body left normally: only the lock is released
GetConnectionExit(self) == [self EXCEPT !.lock = Release(@)]

\* transaction, exception e thrown in at its yield: `except Exception` rolls back
\* and re-raises; the exception then passes through get_connection
TransactionRaised(self, e) ==
    IF IsException(e)
    THEN GetConnectionRaised([self EXCEPT !.connection = RollbackConn(@)], e)
    ELSE GetConnectionRaised(self, e)

\* Faulty variant of close: the connection is closed but _connection keeps it.
CloseKeepsConnection(self, t) ==
    LET held == [self EXCEPT !.lock = Acquire(@, t)]
    IN [held EXCEPT !.lock = Release(@)]

\* SQLiteConnectionManager.close
Close(self, t) ==
    LET held == [self EXCEPT !.lock = Acquire(@, t)]
        closed == IF held.connection # NoConnection
                  THEN [held EXCEPT !.connection = NoConnection]
                  ELSE held
    IN [closed EXCEPT !.lock = Release(@)]

(***************************************************************************)
(* The manager as a state machine.  A thread outside a scope enters        *)
(* get_connection() or transaction(), or calls close(); inside a scope its *)
(* body inserts rows, commits (get_connection bodies do), raises, or ends. *)
(***************************************************************************)
NoScope == [kind |-> "none", rows |-> {}, handle |-> 0]

\* An observed step: who made it, how it ended, and the manager and the open
\* connections before it.
ConnObserved(t, op, outcome) ==
    [thread |-> t, op |-> op, outcome |-> outcome, pre |-> manager, open |-> open_handles]

InitConn ==
    /\ manager = NewManager
    /\ database = {}
    /\ next_id = [handle |-> 1, row |-> 1]
    /\ open_handles = {}
    /\ scope = [t \in Threads |-> NoScope]
    /\ co_last = ConnObserved(NoThread, "init", "ok")
    /\ g_txDone = {}
    /\ g_txRaised = {}
    /\ g_getRaised = {}

\* Whether thread t can pass `with self._lock` and, if needed, connect.
CanEnter(t) ==
    /\ scope[t].kind = "none"
    /\ CanAcquire(manager.lock, t)
    /\ manager.connection = NoConnection => next_id.handle <= MaxConnects

IdAfterEnter ==
    IF manager.connection = NoConnection
    THEN [next_id EXCEPT !.handle = @ + 1] ELSE next_id

\* The open connections after sqlite3.connect, where get_connection calls it.
OpenAfterEnter ==
    IF manager.connection = NoConnection
    THEN open_handles \cup {next_id.handle} ELSE open_handles

\* The open connections after close(): self._connection.close() closes that one.
OpenAfterClose ==
    IF manager.connection # NoConnection
    THEN open_handles \ {manager.connection.id} ELSE open_handles

\* with mgr.get_connection() as conn:
OpenGetConnection(t) ==
    /\ CanEnter(t)
    /\ manager' = EnterGetConnection(manager, t, next_id.handle)
    /\ next_id' = IdAfterEnter
    /\ open_handles' = OpenAfterEnter
    /\ scope' = [scope EXCEPT ![t] = [kind |-> "get_connection", rows |-> {},
                                      handle |-> manager'.connection.id]]
    /\ co_last' = ConnObserved(t, "get_connection", "ok")
    /\ UNCHANGED <<database, g_txDone, g_txRaised, g_getRaised, notConn>>

\* with mgr.transaction() as conn: BEGIN IMMEDIATE succeeds and the body starts,
\* or it fails and the error leaves through get_connection before any body runs
OpenTransaction(t) ==
    /\ CanEnter(t)
    /\ LET entered == EnterGetConnection(manager, t, next_id.handle)
           begun == BeginImmediate(entered.connection)
       IN IF begun.raised = "ok"
          THEN /\ manager' = [entered EXCEPT !.connection = begun.conn]
               /\ scope' = [scope EXCEPT ![t] = [kind |-> "transaction", rows |-> {},
                                                 handle |-> entered.connection.id]]
               /\ co_last' = ConnObserved(t, "transaction", "ok")
          ELSE /\ manager' = GetConnectionRaised(entered, begun.raised)
               /\ scope' = scope
               /\ co_last' = ConnObserved(t, "transaction", begun.raised)
    /\ next_id' = IdAfterEnter
    /\ open_handles' = OpenAfterEnter
    /\ UNCHANGED <<database, g_txDone, g_txRaised, g_getRaised, notConn>>

\* conn.execute("INSERT ...") in a body
BodyInsert(t) ==
    /\ scope[t].kind # "none"
    /\ next_id.row <= MaxRows
    /\ manager' = [manager EXCEPT !.connection = ExecuteInsert(@, next_id.row)]
    /\ next_id' = [next_id EXCEPT !.row = @ + 1]
    /\ scope' = [scope EXCEPT ![t].rows = @ \cup {next_id.row}]
    /\ co_last' = ConnObserved(t, "insert", "ok")
    /\ UNCHANGED <<database, open_handles, g_txDone, g_txRaised, g_getRaised, notConn>>

\* conn.commit() in the body of a get_connection scope
BodyCommit(t) ==
    /\ scope[t].kind = "get_connection"
    /\ database' = Committed(manager.connection, database)
    /\ manager' = [manager EXCEPT !.connection = CommitConn(@)]
    /\ scope' = [scope EXCEPT ![t].rows = {}]
    /\ co_last' = ConnObserved(t, "commit", "ok")
    /\ UNCHANGED <<next_id, open_handles, g_txDone, g_txRaised, g_getRaised, notConn>>

\* the body raises e
BodyRaise(t, e) ==
    /\ scope[t].kind # "none"
    /\ IF scope[t].kind = "transaction"
       THEN /\ manager' = TransactionRaised(manager, e)
            /\ g_txRaised' = g_txRaised \cup {[row |-> r, raised |-> e] : r \in scope[t].rows}
            /\ g_getRaised' = g_getRaised
       ELSE /\ manager' = GetConnectionRaised(manager, e)
            /\ g_getRaised' = g_getRaised \cup {[row |-> r, raised |-> e] : r \in scope[t].rows}
            /\ g_txRaised' = g_txRaised
    /\ scope' = [scope EXCEPT ![t] = NoScope]
    /\ co_last' = ConnObserved(t, scope[t].kind, e)
    /\ UNCHANGED <<database, next_id, open_handles, g_txDone, notConn>>

\* the body ends: transaction() commits, then get_connection releases the lock
BodyEnd(t) ==
    /\ scope[t].kind # "none"
    /\ IF scope[t].kind = "transaction"
       THEN /\ database' = Committed(manager.connection, database)
            /\ manager' = GetConnectionExit([manager EXCEPT !.connection = CommitConn(@)])
            /\ g_txDone' = g_txDone \cup scope[t].rows
       ELSE /\ database' = database
            /\ manager' = GetConnectionExit(manager)
            /\ g_txDone' = g_txDone
    /\ scope' = [scope EXCEPT ![t] = NoScope]
    /\ co_last' = ConnObserved(t, "end", "ok")
    /\ UNCHANGED <<next_id, open_handles, g_txRaised, g_getRaised, notConn>>

\* mgr.close() by a thread outside a scope
CallClose(t) ==
    /\ scope[t].kind = "none"
    /\ CanAcquire(manager.lock, t)
    /\ manager' = Close(manager, t)
    /\ open_handles' = OpenAfterClose
    /\ co_last' = ConnObserved(t, "close", "ok")
    /\ UNCHANGED <<database, next_id, scope, g_txDone, g_txRaised, g_getRaised, notConn>>

NextConn ==
    \/ \E t \in Threads : OpenGetConnection(t)
    \/ \E t \in Threads : OpenTransaction(t)
    \/ \E t \in Threads : BodyInsert(t)
    \/ \E t \in Threads : BodyCommit(t)
    \/ \E t \in Threads, e \in BodyExceptions : BodyRaise(t, e)
    \/ \E t \in Threads : BodyEnd(t)
    \/ \E t \in Threads : CallClose(t)

(***************************************************************************)
(* Part 4.  SessionRepository and SessionSummarizer on the shared          *)
(* connection manager.  The two classes are described by the specification *)
(* (sections 4.4 and 5): append_turn assigns the next turn index inside    *)
(* one transaction(); summarize_expired selects the expired sessions that  *)
(* have no summary and, per session, lets the LLM write a summary and then *)
(* in one transaction() writes it to the session row, copies the session's *)
(* turns to archived_messages and deletes them from messages.              *)
(* InteractionLogger.log_interaction writes through get_connection().      *)
(***************************************************************************)
Sessions == {"S1", "S2"}
NoSession == "-"

\* A row of the tables messages, archived_messages, sessions, interaction_logs.
Row(id, table, session, turn_id, msg, summary, expired) ==
    [id |-> id, table |-> table, session |-> session, turn_id |-> turn_id,
     msg |-> msg, summary |-> summary, expired |-> expired]

MessageRow(id, session, turn_id, msg) ==
    Row(id, "messages", session, turn_id, msg, None, FALSE)

ArchivedRow(id, session, turn_id, msg) ==
    Row(id, "archived_messages", session, turn_id, msg, None, FALSE)

SessionRow(id, session, summary, expired) ==
    Row(id, "sessions", session, -1, 0, summary, expired)

LogRow(id) == Row(id, "interaction_logs", NoSession, -1, 0, None, FALSE)

\* SELECT ... FROM <table> WHERE session_id = ?
Select(view, table, session) ==
    {r \in view : r.table = table /\ r.session = session}

\* Faulty variant of the next turn index: the largest index stored so far.
NextTurnIdIsMax(view, session) ==
    LET ids == {r.turn_id : r \in Select(view, "messages", session)}
    IN IF ids = {} THEN 0 ELSE CHOOSE i \in ids : \A j \in ids : j <= i

\* append_turn: the next turn index of a session
NextTurnId(view, session) == Cardinality(Select(view, "messages", session))

\* summarize_expired: the sessions whose expires_at < now and summary is null
ExpiredUnsummarized(view) ==
    {r.session : r \in {x \in view : x.table = "sessions" /\ x.expired /\ x.summary = None}}

\* INSERT INTO archived_messages SELECT ... FROM messages WHERE session_id = ?
ArchiveRows(view, session, first_id) ==
    {ArchivedRow(first_id + r.turn_id, session, r.turn_id, r.msg) :
        r \in Select(view, "messages", session)}

\* UPDATE sessions SET summary = ? WHERE session_id = ?
SummarizedRows(view, session, summary) ==
    {[r EXCEPT !.summary = summary] : r \in Select(view, "sessions", session)}

Idle == [pc |-> "idle", session |-> NoSession, msg |-> 0, queue |-> {},
         summary |-> None, processed |-> 0, archived |-> 0]

ArObserved(t, op, ret) == [thread |-> t, op |-> op, ret |-> ret]

\* A database error inside append_turn, which the repository reports as False.
AppendErrors == {"OperationalError"}

\* with self._conn_mgr.transaction() as conn, up to the start of the body
TransactionEnter(t) ==
    LET entered == EnterGetConnection(manager, t, next_id.handle)
        begun == BeginImmediate(entered.connection)
    IN IF begun.raised = "ok"
       THEN [manager |-> [entered EXCEPT !.connection = begun.conn], raised |-> "ok"]
       ELSE [manager |-> GetConnectionRaised(entered, begun.raised), raised |-> begun.raised]

\* the end of a transaction() body: commit, then get_connection releases the lock
TransactionExit(self) == GetConnectionExit([self EXCEPT !.connection = CommitConn(@)])

CanStart(t) ==
    /\ ar_task[t].pc = "idle"
    /\ CanAcquire(manager.lock, t)
    /\ manager.connection = NoConnection => next_id.handle <= MaxConnects

InitArchive ==
    /\ ar_task = [t \in Threads |-> Idle]
    /\ next_msg = 1
    /\ ar_last = ArObserved(NoThread, "init", TRUE)
    /\ g_appended = [s \in Sessions |-> <<>>]

coObs == <<scope, co_last, g_txDone, g_txRaised, g_getRaised>>
notArchive == <<now, cbVars, caVars, coObs, memVars, kgVars, laterVars>>   \* what a repository step leaves alone

\* append_turn(session, ...): transaction() is entered; when BEGIN IMMEDIATE
\* fails the call returns False
AppendOpen(t, session) ==
    /\ CanStart(t)
    /\ next_msg <= MaxAppends
    /\ LET tx == TransactionEnter(t)
       IN /\ manager' = tx.manager
          /\ IF tx.raised = "ok"
             THEN /\ ar_task' = [ar_task EXCEPT ![t] =
                        [Idle EXCEPT !.pc = "begun", !.session = session, !.msg = next_msg]]
                  /\ ar_last' = ArObserved(t, "begin", TRUE)
             ELSE /\ ar_task' = ar_task
                  /\ ar_last' = ArObserved(t, "append", FALSE)
    /\ next_msg' = next_msg + 1
    /\ next_id' = IdAfterEnter
    /\ open_handles' = OpenAfterEnter
    /\ UNCHANGED <<database, g_appended, notArchive>>

\* append_turn, in the transaction: the turn is inserted under the next index
AppendInsert(t) ==
    /\ ar_task[t].pc = "begun"
    /\ LET session == ar_task[t].session
           row == MessageRow(next_id.row, session, NextTurnId(Visible, session), ar_task[t].msg)
       IN manager' = [manager EXCEPT !.connection = ExecuteInsert(@, row)]
    /\ next_id' = [next_id EXCEPT !.row = @ + 1]
    /\ ar_task' = [ar_task EXCEPT ![t].pc = "inserted"]
    /\ ar_last' = ArObserved(t, "insert", TRUE)
    /\ UNCHANGED <<database, open_handles, next_msg, g_appended, notArchive>>

\* append_turn: the transaction commits and the call returns True
AppendCommit(t) ==
    /\ ar_task[t].pc = "inserted"
    /\ database' = Committed(manager.connection, database)
    /\ manager' = TransactionExit(manager)
    /\ g_appended' = [g_appended EXCEPT ![ar_task[t].session] = Append(@, ar_task[t].msg)]
    /\ ar_task' = [ar_task EXCEPT ![t] = Idle]
    /\ ar_last' = ArObserved(t, "append", TRUE)
    /\ UNCHANGED <<next_id, open_handles, next_msg, notArchive>>

\* append_turn: a statement fails; transaction() rolls back, the call returns False
AppendFail(t, e) ==
    /\ ar_task[t].pc \in {"begun", "inserted"}
    /\ manager' = TransactionRaised(manager, e)
    /\ ar_task' = [ar_task EXCEPT ![t] = Idle]
    /\ ar_last' = ArObserved(t, "append", FALSE)
    /\ UNCHANGED <<database, next_id, open_handles, next_msg, g_appended, notArchive>>

NextAppend ==
    \/ \E t \in Threads, session \in Sessions : AppendOpen(t, session)
    \/ \E t \in Threads : AppendInsert(t)
    \/ \E t \in Threads : AppendCommit(t)
    \/ \E t \in Threads, e \in AppendErrors : AppendFail(t, e)

\* The stored sessions before a summarizer run: session s has turns[s] turns,
\* no summary, and is expired or not.
InitialRows(turns, expired) ==
    LET Offset(s) == IF s = "S1" THEN 0 ELSE turns["S1"]
        SessionId(s) == IF s = "S1" THEN 1 ELSE 2
    IN UNION {{SessionRow(SessionId(s), s, None, expired[s])}
              \cup {MessageRow(3 + Offset(s) + i, s, i, 1 + Offset(s) + i) : i \in 0..(turns[s] - 1)}
              : s \in Sessions}

InitSummarize ==
    \E turns \in [Sessions -> 0..MaxTurns], expired \in [Sessions -> BOOLEAN] :
        /\ manager = NewManager
        /\ database = InitialRows(turns, expired)
        /\ next_id = [handle |-> 1, row |-> 3 + turns["S1"] + turns["S2"]]
        /\ open_handles = {}
        /\ scope = [t \in Threads |-> NoScope]
        /\ co_last = ConnObserved(NoThread, "init", "ok")
        /\ g_txDone = {}
        /\ g_txRaised = {}
        /\ g_getRaised = {}
        /\ ar_task = [t \in Threads |-> Idle]
        /\ next_msg = 1 + turns["S1"] + turns["S2"]
        /\ ar_last = ArObserved(NoThread, "init", TRUE)
        /\ g_appended = [s \in Sessions |->
                            [i \in 1..turns[s] |-> (IF s = "S1" THEN 0 ELSE turns["S1"]) + i]]

\* summarize_expired: the sessions to process are read
SumSelect(t) ==
    /\ CanStart(t)
    /\ manager' = GetConnectionExit(EnterGetConnection(manager, t, next_id.handle))
    /\ next_id' = IdAfterEnter
    /\ open_handles' = OpenAfterEnter
    /\ ar_task' = [ar_task EXCEPT ![t] =
            [Idle EXCEPT !.pc = "selected", !.queue = ExpiredUnsummarized(Visible)]]
    /\ ar_last' = ArObserved(t, "select", ExpiredUnsummarized(Visible))
    /\ UNCHANGED <<database, next_msg, g_appended, notArchive>>

\* summarize_expired, next session: its messages are read and the LLM is asked
\* for a summary; no messages or a failed LLM call give no summary, and the
\* session is left as it is
SumGenerate(t, session, answer) ==
    /\ ar_task[t].pc = "selected"
    /\ session \in ar_task[t].queue
    /\ CanAcquire(manager.lock, t)
    /\ manager.connection # NoConnection
    /\ LET summary == IF Select(Visible, "messages", session) = {} THEN None ELSE answer
       IN /\ ar_task' = [ar_task EXCEPT ![t] =
                  IF summary = None
                  THEN [@ EXCEPT !.queue = @ \ {session}]
                  ELSE [@ EXCEPT !.pc = "generated", !.session = session, !.summary = summary]]
          /\ ar_last' = ArObserved(t, "generate", summary)
    /\ UNCHANGED <<manager, database, next_id, open_handles, next_msg, g_appended, notArchive>>

\* the session being processed is done with: on to the next one
NextSession(task) ==
    [task EXCEPT !.pc = "selected", !.queue = @ \ {task.session},
                 !.session = NoSession, !.summary = None]

\* summarize_expired, per session: transaction() is entered
SumOpen(t) ==
    /\ ar_task[t].pc = "generated"
    /\ CanAcquire(manager.lock, t)
    /\ manager.connection = NoConnection => next_id.handle <= MaxConnects
    /\ LET tx == TransactionEnter(t)
       IN /\ manager' = tx.manager
          /\ ar_task' = [ar_task EXCEPT ![t] =
                IF tx.raised = "ok" THEN [@ EXCEPT !.pc = "begun"] ELSE NextSession(@)]
          /\ ar_last' = ArObserved(t, "begin", tx.raised = "ok")
    /\ next_id' = IdAfterEnter
    /\ open_handles' = OpenAfterEnter
    /\ UNCHANGED <<database, next_msg, g_appended, notArchive>>

\* in the transaction: the summary is written into the session row
SumWriteSummary(t) ==
    /\ ar_task[t].pc = "begun"
    /\ LET old == Select(Visible, "sessions", ar_task[t].session)
           new == SummarizedRows(Visible, ar_task[t].session, ar_task[t].summary)
       IN manager' = [manager EXCEPT !.connection =
                         [ExecuteDelete(@, old) EXCEPT !.pending = @ \cup new]]
    /\ ar_task' = [ar_task EXCEPT ![t].pc = "summarized"]
    /\ ar_last' = ArObserved(t, "write_summary", TRUE)
    /\ UNCHANGED <<database, next_id, open_handles, next_msg, g_appended, notArchive>>

\* in the transaction: the session's turns are copied to archived_messages
SumArchive(t) ==
    /\ ar_task[t].pc = "summarized"
    /\ next_id.row + MaxTurns <= MaxRowId
    /\ LET rows == ArchiveRows(Visible, ar_task[t].session, next_id.row)
       IN /\ manager' = [manager EXCEPT !.connection =
                            [@ EXCEPT !.in_transaction = TRUE, !.pending = @ \cup rows]]
          /\ ar_task' = [ar_task EXCEPT ![t].pc = "archived", ![t].archived = @ + Cardinality(rows)]
    /\ next_id' = [next_id EXCEPT !.row = @ + MaxTurns]
    /\ ar_last' = ArObserved(t, "archive", TRUE)
    /\ UNCHANGED <<database, open_handles, next_msg, g_appended, notArchive>>

\* in the transaction: the session's turns are deleted from messages
SumDelete(t) ==
    /\ ar_task[t].pc = "archived"
    /\ manager' = [manager EXCEPT !.connection =
                      ExecuteDelete(@, Select(Visible, "messages", ar_task[t].session))]
    /\ ar_task' = [ar_task EXCEPT ![t].pc = "deleted"]
    /\ ar_last' = ArObserved(t, "delete", TRUE)
    /\ UNCHANGED <<database, next_id, open_handles, next_msg, g_appended, notArchive>>

\* the transaction commits; the session counts as processed
SumCommit(t) ==
    /\ ar_task[t].pc = "deleted"
    /\ database' = Committed(manager.connection, database)
    /\ manager' = TransactionExit(manager)
    /\ ar_task' = [ar_task EXCEPT ![t] = NextSession([@ EXCEPT !.processed = @ + 1])]
    /\ ar_last' = ArObserved(t, "commit", TRUE)
    /\ UNCHANGED <<next_id, open_handles, next_msg, g_appended, notArchive>>

\* a failure inside the per-session transaction: transaction() handles e; an
\* exception derived from Exception is logged and the pass goes on with the
\* next session, any other ends the pass
SumRaise(t, e) ==
    /\ ar_task[t].pc \in {"begun", "summarized", "archived", "deleted"}
    /\ manager' = TransactionRaised(manager, e)
    /\ ar_task' = [ar_task EXCEPT ![t] = IF IsException(e) THEN NextSession(@) ELSE Idle]
    /\ ar_last' = ArObserved(t, "raise", e)
    /\ UNCHANGED <<database, next_id, open_handles, next_msg, g_appended, notArchive>>

\* summarize_expired returns {sessions_processed, messages_archived}
SumReturn(t) ==
    /\ ar_task[t].pc = "selected"
    /\ ar_task[t].queue = {}
    /\ ar_task' = [ar_task EXCEPT ![t] = Idle]
    /\ ar_last' = ArObserved(t, "return", <<ar_task[t].processed, ar_task[t].archived>>)
    /\ UNCHANGED <<manager, database, next_id, open_handles, next_msg, g_appended, notArchive>>

\* InteractionLogger.log_interaction: one INSERT and a commit inside get_connection()
LogInteraction(t) ==
    /\ CanStart(t)
    /\ Cardinality({r \in database : r.table = "interaction_logs"}) < MaxLogs
    /\ next_id.row <= MaxRowId
    /\ LET entered == EnterGetConnection(manager, t, next_id.handle)
           written == ExecuteInsert(entered.connection, LogRow(next_id.row))
       IN /\ database' = Committed(written, database)
          /\ manager' = GetConnectionExit([entered EXCEPT !.connection = CommitConn(written)])
    /\ next_id' = [IdAfterEnter EXCEPT !.row = @ + 1]
    /\ open_handles' = OpenAfterEnter
    /\ ar_last' = ArObserved(t, "log_interaction", TRUE)
    /\ UNCHANGED <<ar_task, next_msg, g_appended, notArchive>>

NextSummarize ==
    \/ \E t \in Threads : SumSelect(t)
    \/ \E t \in Threads, session \in Sessions, answer \in {"ok", None} : SumGenerate(t, session, answer)
    \/ \E t \in Threads : SumOpen(t)
    \/ \E t \in Threads : SumWriteSummary(t)
    \/ \E t \in Threads : SumArchive(t)
    \/ \E t \in Threads : SumDelete(t)
    \/ \E t \in Threads : SumCommit(t)
    \/ \E t \in Threads, e \in BodyExceptions : SumRaise(t, e)
    \/ \E t \in Threads : SumReturn(t)
    \/ \E t \in Threads : LogInteraction(t)

(***************************************************************************)
(* Part 5.  MemoryConsolidator.consolidate and the maintenance decay sweep *)
(* (pg_memory_gc.phase4_decay_cleanup) on a store of memories.             *)
(*                                                                         *)
(* Importance values are in hundredths: 0.1 is 10.  MemoryConfig, the      *)
(* repository and the decay calculator are described by the specification  *)
(* (section 4.6): the calculator returns, per memory, a value between      *)
(* min_retention and the memory's importance.                              *)
(***************************************************************************)
MemIds == {"m1", "m2"}
Levels == {5, 10, 50}             \* importance values: 0.05, 0.1, 0.5
StoredLevels == {5, 50}           \* the importance of the memories in the initial store
Repetitions == {1, 2, 3}
AccessCounts == {1, 2, 3}
NoLevel == -1                     \* decayed_importance IS NULL

NoMemory ==
    [stored |-> FALSE, metadata |-> FALSE, preserved |-> FALSE, repetitions |-> 1,
     access_count |-> 1, importance |-> 50, decayed_importance |-> NoLevel]

\* A stored memory without metadata.
BareMemory == [NoMemory EXCEPT !.stored = TRUE]

\* The stored memories: a cached decayed importance is at most the importance.
Memories ==
    {BareMemory} \cup
    {memory \in [stored : {TRUE}, metadata : {TRUE}, preserved : BOOLEAN,
                 repetitions : Repetitions, access_count : AccessCounts,
                 importance : StoredLevels, decayed_importance : {NoLevel} \cup StoredLevels] :
        memory.decayed_importance <= memory.importance}

MemoryConfigs ==
    [PRESERVE_REPETITIONS : {3}, DECAY_DELETE_THRESHOLD : {10}, MIN_RETENTION : {10}]

StoredIds(st) == {id \in MemIds : st[id].stored}

\* consolidate, lines 66-82: the memories with metadata, split into the already
\* preserved, the ones to preserve and the evaluation batch
Checked(st) == {id \in StoredIds(st) : st[id].metadata}
ToPreserve(st, cfg) ==
    {id \in Checked(st) : ~st[id].preserved /\ st[id].repetitions >= cfg.PRESERVE_REPETITIONS}
BatchData(st, cfg) ==
    {id \in Checked(st) : ~st[id].preserved /\ st[id].repetitions < cfg.PRESERVE_REPETITIONS}

\* AdaptiveDecayCalculator: the values a memory's decayed importance can take
DecayedRange(importance, cfg) ==
    {v \in Levels : \/ cfg.MIN_RETENTION <= v /\ v <= importance
                    \/ importance <= v /\ v <= cfg.MIN_RETENTION}

\* the results calculate_batch can return for a batch
DecayedValues(st, cfg) ==
    {d \in [MemIds -> Levels] :
        \A id \in MemIds : IF id \in BatchData(st, cfg)
                           THEN d[id] \in DecayedRange(st[id].importance, cfg)
                           ELSE d[id] = 5}

\* the deletion rule of _calculate_deletions_batch
Deletable(memory, decayed, cfg) ==
    /\ decayed < cfg.DECAY_DELETE_THRESHOLD
    /\ memory.repetitions < 2
    /\ memory.access_count < 3

\* _calculate_deletions_batch: the ids to delete
CalculateDeletionsBatch(st, batch, decayed, cfg) ==
    {id \in batch : Deletable(st[id], decayed[id], cfg)}

\* Faulty variant of _get_surviving_updates: the ids to delete are not left out.
GetSurvivingUpdatesAll(batch, decayed, to_delete) == batch

\* _get_surviving_updates: the ids whose importance is updated (to decayed[id])
GetSurvivingUpdates(batch, decayed, to_delete) ==
    {id \in batch : id \notin to_delete}

\* repository.batch_update_metadata(ids, [{**metadata, "preserved": True}, ...])
MarkPreserved(st, ids) ==
    [id \in MemIds |-> IF id \in ids /\ st[id].stored
                       THEN [st[id] EXCEPT !.preserved = TRUE] ELSE st[id]]

\* repository.batch_update_metadata(ids, [{"importance": decayed}, ...])
UpdateImportance(st, ids, decayed) ==
    [id \in MemIds |-> IF id \in ids /\ st[id].stored
                       THEN [st[id] EXCEPT !.importance = decayed[id]] ELSE st[id]]

\* repository.delete(ids)
Delete(st, ids) == [id \in MemIds |-> IF id \in ids THEN NoMemory ELSE st[id]]

Failures == {"none", "preserve", "decay", "delete", "update"}

\* MemoryConsolidator.consolidate.  decayed is what calculate_batch returns, and
\* fail names the stage whose call raises, if that call is made: the preserve
\* update, calculate_batch, repository.delete or the importance update.  All
\* stages run inside one try block, so a call that raises ends the pass.
Consolidate(st, cfg, decayed, fail) ==
    LET to_preserve == ToPreserve(st, cfg)
        batch_data == BatchData(st, cfg)
        preserveRaised == fail = "preserve" /\ to_preserve # {}
        st1 == IF to_preserve # {} /\ ~preserveRaised THEN MarkPreserved(st, to_preserve) ELSE st
        decayRaised == ~preserveRaised /\ fail = "decay" /\ batch_data # {}
        decayDone == ~preserveRaised /\ ~decayRaised
        to_delete == IF decayDone THEN CalculateDeletionsBatch(st, batch_data, decayed, cfg) ELSE {}
        deleteRaised == decayDone /\ fail = "delete" /\ to_delete # {}
        st2 == IF to_delete # {} /\ ~deleteRaised THEN Delete(st1, to_delete) ELSE st1
        deleteDone == decayDone /\ ~deleteRaised
        surviving == IF deleteDone THEN GetSurvivingUpdates(batch_data, decayed, to_delete) ELSE {}
        updateRaised == deleteDone /\ fail = "update" /\ surviving # {}
        st3 == IF surviving # {} /\ ~updateRaised THEN UpdateImportance(st2, surviving, decayed) ELSE st2
    IN [store |-> st3,
        raised |-> IF preserveRaised THEN "preserve" ELSE IF decayRaised THEN "decay"
                   ELSE IF deleteRaised THEN "delete" ELSE IF updateRaised THEN "update"
                   ELSE "none",
        preserve_ids |-> IF to_preserve # {} /\ ~preserveRaised THEN to_preserve ELSE {},
        delete_ids |-> IF to_delete # {} /\ ~deleteRaised THEN to_delete ELSE {},
        update_ids |-> IF surviving # {} /\ ~updateRaised THEN surviving ELSE {},
        report |-> [checked |-> Cardinality(Checked(st)),
                    preserved |-> IF preserveRaised THEN 0 ELSE Cardinality(to_preserve),
                    deleted |-> Cardinality(to_delete),
                    surviving_updated |-> IF updateRaised THEN 0 ELSE Cardinality(surviving)]]

SweepThreshold == 10    \* 0.1 in the condition of phase4_decay_cleanup

\* phase4_decay_cleanup: the WHERE condition of its SELECT and DELETE
Phase4Condition(memory) ==
    \/ memory.decayed_importance # NoLevel /\ memory.decayed_importance < SweepThreshold
    \/ memory.importance < SweepThreshold /\ memory.access_count <= 1

\* phase4_decay_cleanup(conn, dry_run)
Phase4DecayCleanup(st, dry_run) ==
    LET candidates == {id \in StoredIds(st) : Phase4Condition(st[id])}
    IN IF candidates = {} \/ dry_run
       THEN [store |-> st, deleted |-> Cardinality(candidates)]
       ELSE [store |-> Delete(st, candidates), deleted |-> Cardinality(candidates)]

\* No calculator values: the pass is not a consolidation.
NoDecayed == [id \in MemIds |-> 5]

\* An observed pass: the store before it, the calculator's values, the call that
\* raised, the ids it marked, deleted and updated, and the deleted count reported.
MemObserved(op, decayed, raised, preserve_ids, delete_ids, update_ids, deleted) ==
    [op |-> op, pre |-> store, decayed |-> decayed, raised |-> raised,
     preserve_ids |-> preserve_ids, delete_ids |-> delete_ids, update_ids |-> update_ids,
     deleted |-> deleted]

SweepObserved(op, result) ==
    MemObserved(op, NoDecayed, "none", {}, StoredIds(store) \ StoredIds(result.store), {},
                result.deleted)

RestMemory ==
    /\ store = [id \in MemIds |-> NoMemory]
    /\ mem_config = [PRESERVE_REPETITIONS |-> 3, DECAY_DELETE_THRESHOLD |-> 10, MIN_RETENTION |-> 10]
    /\ mem_last = MemObserved("init", NoDecayed, "none", {}, {}, {}, 0)

InitMemory ==
    /\ store \in [MemIds -> Memories]
    /\ mem_config \in MemoryConfigs
    /\ mem_last = MemObserved("init", NoDecayed, "none", {}, {}, {}, 0)

notMemory == <<now, cbVars, caVars, coVars, arVars, kgVars, laterVars>>

CallConsolidate(decayed, fail) ==
    /\ LET result == Consolidate(store, mem_config, decayed, fail)
       IN /\ store' = result.store
          /\ mem_last' = MemObserved("consolidate", decayed, result.raised, result.preserve_ids,
                                     result.delete_ids, result.update_ids, result.report.deleted)
    /\ UNCHANGED <<mem_config, notMemory>>

CallDecaySweep(dry_run) ==
    /\ LET result == Phase4DecayCleanup(store, dry_run)
       IN /\ store' = result.store
          /\ mem_last' = SweepObserved(IF dry_run THEN "dry_run" ELSE "sweep", result)
    /\ UNCHANGED <<mem_config, notMemory>>

NextMemory ==
    \/ \E decayed \in DecayedValues(store, mem_config), fail \in Failures :
          CallConsolidate(decayed, fail)
    \/ \E dry_run \in BOOLEAN : CallDecaySweep(dry_run)

(***************************************************************************)
(* Specifications: one component runs, the others rest as constructed.     *)
(***************************************************************************)
RestCircuit ==
    /\ circuit = NewCircuit(CircuitConfig(1, 1, 1, 1))
    /\ cb_last = Observed("init", TRUE, circuit)
    /\ g_consec = 0
    /\ g_hoSucc = 0
    /\ g_admitted = 0
    /\ g_lastFail = NoTime

RestCache ==
    /\ ttlcache = NewCache(1, 1)
    /\ g_lru = <<>>
    /\ g_set = [k \in CacheKeys |-> NoEntry]
    /\ ca_last = CacheObserved("init", NoKey, <<FALSE, None>>, <<>>)

(***************************************************************************)
(* Part 6.  KnowledgeGraph (graph_rag.py) in JSON mode (pg_repository is    *)
(* None): add_entity with its deduplication by name, save, and the         *)
(* construction of a graph that loads the saved file.                      *)
(*                                                                         *)
(* A name is a sequence of characters, so that normalization and           *)
(* lowercasing are computed.  Of an entity the model keeps id, name,       *)
(* entity_type and mentions.                                               *)
(***************************************************************************)
MaxGraphCalls == 3    \* add_entity calls in a behaviour
MaxSaves == 1         \* save calls in a behaviour
MaxLoads == 1         \* constructions of a graph from the saved file in a behaviour
MaxInterrupts == 1    \* interrupted saves in a behaviour

EntityIds == {"", "e1", "e2"}
EntityTypes == {"concept", "person"}
RawNames ==
    { <<"t", " ", "i">>,
      <<"T", " ", " ", "i">>,
      <<" ", "t", " ", "i", " ">>,
      <<"i", "t">>,
      <<"I", "t">> }

\* the members of ENTITY_STOPWORDS that the characters of RawNames can spell
ENTITY_STOPWORDS == { <<"i", "t">>, <<"i">> }

IsSpace(c) == c = " "

LowerChar(c) == CASE c = "T" -> "t" [] c = "I" -> "i" [] OTHER -> c

\* str.lower()
Lower(name) == [i \in DOMAIN name |-> LowerChar(name[i])]

RECURSIVE LStrip(_)
LStrip(name) ==
    IF name # <<>> /\ IsSpace(Head(name)) THEN LStrip(Tail(name)) ELSE name

RECURSIVE RStrip(_)
RStrip(name) ==
    IF name # <<>> /\ IsSpace(name[Len(name)])
    THEN RStrip(SubSeq(name, 1, Len(name) - 1))
    ELSE name

\* str.strip()
Strip(name) == RStrip(LStrip(name))

\* str.split(): the maximal runs of characters that are not whitespace
RECURSIVE Split(_, _, _)
Split(name, word, words) ==
    IF name = <<>>
    THEN IF word = <<>> THEN words ELSE Append(words, word)
    ELSE IF IsSpace(Head(name))
         THEN Split(Tail(name), <<>>, IF word = <<>> THEN words ELSE Append(words, word))
         ELSE Split(Tail(name), Append(word, Head(name)), words)

\* " ".join(words)
RECURSIVE Join(_)
Join(words) ==
    IF words = <<>> THEN <<>>
    ELSE IF Len(words) = 1 THEN words[1]
    ELSE words[1] \o <<" ">> \o Join(Tail(words))

\* _normalize_entity_name
NormalizeEntityName(name) == Join(Split(Strip(name), <<>>, <<>>))

Entity(id, name, entity_type) ==
    [id |-> id, name |-> name, entity_type |-> entity_type, mentions |-> 1]

\* the id strings of the model and of the keys a load can produce, with their characters
Strings == {"", "e1", "e2", "a|b", "b", "a", "b|b", "b|a|b", "t_i", "_t_i_", "it"}

Spelling(str) ==
    CASE str = "" -> <<>>
      [] str = "e1" -> <<"e", "1">>
      [] str = "e2" -> <<"e", "2">>
      [] str = "a|b" -> <<"a", "|", "b">>
      [] str = "b" -> <<"b">>
      [] str = "a" -> <<"a">>
      [] str = "b|b" -> <<"b", "|", "b">>
      [] str = "b|a|b" -> <<"b", "|", "a", "|", "b">>
      [] str = "t_i" -> <<"t", "_", "i">>
      [] str = "_t_i_" -> <<"_", "t", "_", "i", "_">>
      [] str = "it" -> <<"i", "t">>

\* the string with the given characters
Unspell(chars) == CHOOSE str \in Strings : Spelling(str) = chars

\* ord(c)
CharCode(c) ==
    CASE c = "1" -> 49 [] c = "2" -> 50 [] c = "a" -> 97 [] c = "b" -> 98
      [] c = "e" -> 101 [] c = "|" -> 124
      [] c = "_" -> 95 [] c = "i" -> 105 [] c = "t" -> 116

\* str < str
RECURSIVE CharsLess(_, _)
CharsLess(x, y) ==
    IF y = <<>> THEN FALSE
    ELSE IF x = <<>> THEN TRUE
    ELSE IF Head(x) # Head(y) THEN CharCode(Head(x)) < CharCode(Head(y))
    ELSE CharsLess(Tail(x), Tail(y))

\* tuple(sorted([x, y]))
SortedPair(x, y) == IF CharsLess(Spelling(y), Spelling(x)) THEN <<y, x>> ELSE <<x, y>>

\* KnowledgeGraph.__init__ before _load
EmptyGraph ==
    [entities |-> <<>>, name_index |-> <<>>, relations |-> <<>>, adjacency |-> <<>>,
     relation_index |-> <<>>, cooccurrence |-> <<>>, entity_mentions |-> <<>>]

\* no file at persist_path
NoFile ==
    [exists |-> FALSE, complete |-> FALSE, entities |-> <<>>, relations |-> <<>>,
     cooccurrence |-> <<>>, entity_mentions |-> <<>>]

\* dict assignment d[k] = v
DictSet(d, k, v) == [x \in DOMAIN d \cup {k} |-> IF x = k THEN v ELSE d[x]]

\* d.get(k, default), and d[k] on a defaultdict as far as the value goes
DictGet(d, k, default) == IF k \in DOMAIN d THEN d[k] ELSE default

\* _deduplicate_entity: the graph after the call and the id it returns
DeduplicateEntity(self, entity) ==
    LET normalized == Lower(NormalizeEntityName(entity.name))
        existing_id == IF normalized \in DOMAIN self.name_index
                       THEN self.name_index[normalized] ELSE None
    IN IF existing_id # None /\ existing_id \in DOMAIN self.entities
       THEN LET existing == self.entities[existing_id]
                merged == [existing EXCEPT
                             !.mentions = @ + entity.mentions,
                             !.entity_type = IF @ = "concept" /\ entity.entity_type # "concept"
                                             THEN entity.entity_type ELSE @]
            IN [self |-> [self EXCEPT !.entities = DictSet(@, existing_id, merged)],
                result |-> existing_id]
       ELSE [self |-> self, result |-> None]

\* Python truth value of an optional string
Truthy(value) == value # None /\ value # ""

\* add_entity: the graph after the call and the id it returns
AddEntity(self, entity) ==
    LET normalized_name == NormalizeEntityName(entity.name)
    IN IF entity.entity_type = "concept" /\ Lower(normalized_name) \in ENTITY_STOPWORDS
       THEN [self |-> self, result |-> ""]
       ELSE LET named == [entity EXCEPT !.name = normalized_name]
                dedup == DeduplicateEntity(self, named)
            IN IF Truthy(dedup.result)
               THEN dedup
               ELSE IF named.id \in DOMAIN dedup.self.entities
                    THEN [self |-> [dedup.self EXCEPT !.entities[named.id].mentions = @ + 1],
                          result |-> named.id]
                    ELSE [self |-> [dedup.self EXCEPT
                                      !.entities = DictSet(@, named.id, named),
                                      !.name_index = DictSet(@, Lower(NormalizeEntityName(named.name)),
                                                             named.id)],
                          result |-> named.id]

(***************************************************************************)
(* Relations.  A weight is a number of ten-thousandths (1.0 is 10000); the *)
(* id of a relation, the string source--type-->target, is the triple.      *)
(***************************************************************************)
WeightOne == 10000          \* 1.0
WeightIncrement == 1000     \* existing.weight += 0.1
ChangeThreshold == 10       \* abs(new_weight - rel.weight) > 0.001

Relation(source_id, target_id, relation_type, weight) ==
    [source_id |-> source_id, target_id |-> target_id, relation_type |-> relation_type,
     weight |-> weight]

\* Relation.id
RelationId(relation) == <<relation.source_id, relation.relation_type, relation.target_id>>

\* the empty string that add_relation returns for a missing endpoint
NoRelationId == <<>>

\* Faulty variant of AddRelation: the relation is stored whether or not its endpoints are.
AddRelationUnchecked(self, relation) ==
    [self |-> [self EXCEPT !.relations = DictSet(@, RelationId(relation), relation)],
     result |-> RelationId(relation)]

\* add_relation: the graph after the call and the id it returns
AddRelation(self, relation) ==
    LET source == relation.source_id
        target == relation.target_id
        id == RelationId(relation)
    IN IF source \notin DOMAIN self.entities \/ target \notin DOMAIN self.entities
       THEN [self |-> self, result |-> NoRelationId]
       ELSE IF id \in DOMAIN self.relations
       THEN LET pair == SortedPair(source, target)
                counted == DictSet(self.cooccurrence, pair, DictGet(self.cooccurrence, pair, 0) + 1)
                mentioned1 == DictSet(self.entity_mentions, source,
                                      DictGet(self.entity_mentions, source, 0) + 1)
                mentioned2 == DictSet(mentioned1, target, DictGet(mentioned1, target, 0) + 1)
            IN [self |-> [self EXCEPT !.cooccurrence = counted,
                                      !.entity_mentions = mentioned2,
                                      !.relations[id].weight = @ + WeightIncrement],
                result |-> id]
       ELSE LET adjacent1 == DictSet(self.adjacency, source,
                                     DictGet(self.adjacency, source, {}) \cup {target})
                adjacent2 == DictSet(adjacent1, target, DictGet(adjacent1, target, {}) \cup {source})
                indexed1 == DictSet(self.relation_index, source,
                                    Append(DictGet(self.relation_index, source, <<>>), id))
                indexed2 == DictSet(indexed1, target, Append(DictGet(indexed1, target, <<>>), id))
            IN [self |-> [self EXCEPT !.relations = DictSet(@, id, relation),
                                      !.adjacency = adjacent2,
                                      !.relation_index = indexed2],
                result |-> id]

\* get_relations_for_entity: the ids of the relations in the entity's index list
GetRelationsForEntity(self, entity_id) == DictGet(self.relation_index, entity_id, <<>>)

\* math.log(k) in ten-thousandths, for the whole numbers the model divides
LnScaled(k) ==
    CASE k = 1 -> 0 [] k = 2 -> 6931 [] k = 3 -> 10986 [] k = 4 -> 13863
      [] k = 5 -> 16094 [] k = 6 -> 17918 [] k = 7 -> 19459 [] k = 8 -> 20794

Max(x, y) == IF x >= y THEN x ELSE y

Min(x, y) == IF x <= y THEN x ELSE y

Abs(x) == IF x >= 0 THEN x ELSE 0 - x

\* recalculate_weights, lines 452-455: per entity, the pairs of the tally it occurs in
EntityCooccurCount(self, entity_id) ==
    Cardinality({pair \in DOMAIN self.cooccurrence : pair[1] = entity_id})
    + Cardinality({pair \in DOMAIN self.cooccurrence : pair[2] = entity_id})

\* recalculate_weights, lines 458-466: the new weight of one relation
NewWeight(self, rel) ==
    LET total_entities == Max(Cardinality(DOMAIN self.entities), 1)
        pair == SortedPair(rel.source_id, rel.target_id)
        pair_count == DictGet(self.cooccurrence, pair, 1)
        source_total == Max(DictGet(self.entity_mentions, rel.source_id, 1), 1)
        source_cooccur == EntityCooccurCount(self, rel.source_id)
        idf == LnScaled(total_entities) - LnScaled(1 + source_cooccur)
        baseline == rel.weight
    IN Max(0, Min(WeightOne, (7 * pair_count * idf) \div (10 * source_total)
                             + (3 * baseline) \div 10))

\* recalculate_weights: the graph after the call and the counts it returns
RecalculateWeights(self) ==
    LET moved == {id \in DOMAIN self.relations :
                     Abs(NewWeight(self, self.relations[id]) - self.relations[id].weight)
                       > ChangeThreshold}
    IN [self |-> [self EXCEPT !.relations =
                     [id \in DOMAIN self.relations |->
                         IF id \in moved
                         THEN [self.relations[id] EXCEPT !.weight = NewWeight(self, self.relations[id])]
                         ELSE self.relations[id]]],
        result |-> [total |-> Cardinality(DOMAIN self.relations), changed |-> Cardinality(moved)]]

(***************************************************************************)
(* Persistence: the JSON document of save and what _load makes of it.      *)
(***************************************************************************)
\* f"{k[0]}|{k[1]}"
JoinKey(pair) == Spelling(pair[1]) \o <<"|">> \o Spelling(pair[2])

\* k_str.split("|", 1): the characters before the first "|" and those after it
RECURSIVE SplitKey(_, _)
SplitKey(chars, before) ==
    IF chars = <<>> THEN <<before>>
    ELSE IF Head(chars) = "|" THEN <<before, Tail(chars)>>
    ELSE SplitKey(Tail(chars), Append(before, Head(chars)))

\* save, the "cooccurrence" object: joined key -> count (the joined keys of
\* the pairs of the model's ids are distinct)
JoinedCooccurrence(cooccurrence) ==
    [key \in {JoinKey(pair) : pair \in DOMAIN cooccurrence} |->
        cooccurrence[CHOOSE pair \in DOMAIN cooccurrence : JoinKey(pair) = key]]

\* _load, lines 643-646: the tally read back from the joined keys
LoadedCooccurrence(joined) ==
    LET splittable == {key \in DOMAIN joined : Len(SplitKey(key, <<>>)) = 2}
        PairOf(key) == <<Unspell(SplitKey(key, <<>>)[1]), Unspell(SplitKey(key, <<>>)[2])>>
    IN [pair \in {PairOf(key) : key \in splittable} |->
           joined[CHOOSE key \in splittable : PairOf(key) = pair]]

\* _load, lines 635-639: adjacency derived from the relations
LoadedAdjacency(relations) ==
    LET ends == {relations[id].source_id : id \in DOMAIN relations}
                \cup {relations[id].target_id : id \in DOMAIN relations}
    IN [node \in ends |->
           {relations[id].target_id : id \in {r \in DOMAIN relations : relations[r].source_id = node}}
           \cup {relations[id].source_id : id \in {r \in DOMAIN relations : relations[r].target_id = node}}]

\* save and save_async: the document written to the file
Save(self) ==
    [exists |-> TRUE, complete |-> TRUE, entities |-> self.entities, relations |-> self.relations,
     cooccurrence |-> JoinedCooccurrence(self.cooccurrence),
     entity_mentions |-> self.entity_mentions]

\* save and save_async stopped after open(path, 'w') and before the document
\* is written out: the file holds a prefix of the document, which is no JSON
SaveInterrupted(self) == [NoFile EXCEPT !.exists = TRUE]

\* __init__ and _load: a graph constructed on persist_path; a document that
\* does not parse is logged and leaves the graph empty
Load(file) ==
    IF ~file.exists \/ ~file.complete
    THEN EmptyGraph
    ELSE [EmptyGraph EXCEPT !.entities = file.entities,
                            !.relations = file.relations,
                            !.adjacency = LoadedAdjacency(file.relations),
                            !.cooccurrence = LoadedCooccurrence(file.cooccurrence),
                            !.entity_mentions = file.entity_mentions]

NoArg == <<>>

GraphObserved(op, arg, result) == [op |-> op, arg |-> arg, result |-> result]

InitGraph ==
    /\ graph = EmptyGraph
    /\ graph_file = NoFile
    /\ kg_saved = [document |-> NoFile, graph |-> EmptyGraph]
    /\ kg_count = [add |-> 0, save |-> 0, load |-> 0, relation |-> 0, recalculate |-> 0,
                   interrupted |-> 0, outside |-> 0, returned |-> <<>>]
    /\ kg_last = GraphObserved("init", NoArg, None)

notGraph == <<now, cbVars, caVars, coVars, arVars, memVars, laterVars>>

CallAddEntity(id, name, entity_type) ==
    /\ kg_count.add < MaxGraphCalls
    /\ LET call == AddEntity(graph, Entity(id, name, entity_type))
       IN /\ graph' = call.self
          /\ kg_last' = GraphObserved("add_entity", Entity(id, name, entity_type), call.result)
    /\ kg_count' = [kg_count EXCEPT !.add = @ + 1]
    /\ UNCHANGED <<graph_file, kg_saved, notGraph>>

CallSave ==
    /\ kg_count.save < MaxSaves
    /\ graph_file' = Save(graph)
    /\ kg_saved' = [document |-> Save(graph), graph |-> graph]
    /\ kg_last' = GraphObserved("save", NoArg, None)
    /\ kg_count' = [kg_count EXCEPT !.save = @ + 1]
    /\ UNCHANGED <<graph, notGraph>>

CallSaveInterrupted ==
    /\ kg_count.interrupted < MaxInterrupts
    /\ graph_file' = SaveInterrupted(graph)
    /\ kg_last' = GraphObserved("save_interrupted", NoArg, None)
    /\ kg_count' = [kg_count EXCEPT !.interrupted = @ + 1]
    /\ UNCHANGED <<graph, kg_saved, notGraph>>

CallLoad ==
    /\ kg_count.load < MaxLoads
    /\ graph' = Load(graph_file)
    /\ kg_last' = GraphObserved("load", NoArg, None)
    /\ kg_count' = [kg_count EXCEPT !.load = @ + 1]
    /\ UNCHANGED <<graph_file, kg_saved, notGraph>>

NextGraph ==
    \/ \E id \in EntityIds, name \in RawNames, entity_type \in EntityTypes :
          CallAddEntity(id, name, entity_type)
    \/ CallSave
    \/ CallLoad

(***************************************************************************)
(* Entities and relations together: the entities are added under ids that  *)
(* spell their names, as GraphRAG does.                                    *)
(***************************************************************************)
MaxRelationCalls == 3    \* add_relation calls in a behaviour
MaxRecalculations == 1   \* recalculate_weights calls in a behaviour

RelationEntityIds == {"a|b", "b"}
RelationTypes == {"knows"}
Weights == {-5, 9500}     \* -0.0005 and 0.95
InRangeWeights == {9500}

InRange(weight) == 0 <= weight /\ weight <= WeightOne

CallAddRelation(source_id, relation_type, target_id, weight) ==
    /\ kg_count.relation < MaxRelationCalls
    /\ LET relation == Relation(source_id, target_id, relation_type, weight)
           call == AddRelation(graph, relation)
       IN /\ graph' = call.self
          /\ kg_last' = GraphObserved("add_relation", relation, call.result)
    /\ kg_count' = [kg_count EXCEPT
                       !.relation = @ + 1,
                       !.outside = IF InRange(weight) THEN @ ELSE 1,
                       !.returned = LET id == AddRelation(graph, Relation(source_id, target_id,
                                                                        relation_type, weight)).result
                                    IN IF id = NoRelationId THEN @
                                       ELSE DictSet(@, id, DictGet(@, id, 0) + 1)]
    /\ UNCHANGED <<graph_file, kg_saved, notGraph>>

CallRecalculateWeights ==
    /\ kg_count.recalculate < MaxRecalculations
    /\ LET call == RecalculateWeights(graph)
       IN /\ graph' = call.self
          /\ kg_last' = GraphObserved("recalculate_weights", NoArg, call.result)
    /\ kg_count' = [kg_count EXCEPT !.recalculate = @ + 1]
    /\ UNCHANGED <<graph_file, kg_saved, notGraph>>

AddNamedEntity == \E id \in RelationEntityIds : CallAddEntity(id, Spelling(id), "person")

\* add_entity, add_relation, save and load
NextRelations ==
    \/ AddNamedEntity
    \/ \E source_id \in RelationEntityIds, target_id \in RelationEntityIds,
          relation_type \in RelationTypes, weight \in InRangeWeights :
          CallAddRelation(source_id, relation_type, target_id, weight)
    \/ CallSave
    \/ CallLoad

\* add_entity, add_relation and recalculate_weights
NextWeights ==
    \/ AddNamedEntity
    \/ \E source_id \in RelationEntityIds, target_id \in RelationEntityIds,
          relation_type \in RelationTypes, weight \in Weights :
          CallAddRelation(source_id, relation_type, target_id, weight)
    \/ CallRecalculateWeights

\* add_entity, add_relation, save, a save that is interrupted, and load
NextPersist ==
    \/ AddNamedEntity
    \/ \E source_id \in RelationEntityIds, target_id \in RelationEntityIds,
          relation_type \in RelationTypes, weight \in InRangeWeights :
          CallAddRelation(source_id, relation_type, target_id, weight)
    \/ CallSave
    \/ CallSaveInterrupted
    \/ CallLoad

(***************************************************************************)
(* Traversal: get_neighbors (the Python breadth-first search, taken below  *)
(* _NATIVE_BFS_THRESHOLD entities) and find_path, on graphs built by       *)
(* add_entity and add_relation.  Reading self.adjacency[node], a           *)
(* defaultdict, creates the key.                                           *)
(***************************************************************************)
MaxDepth == 3    \* the largest depth and max_depth passed

Depths == 0..MaxDepth

TraverseIds == <<"a", "b", "e1", "e2">>

\* the relations a graph of the traversals may hold, as <<source, target>>
TraverseEdges ==
    << <<"a", "b">>, <<"b", "e1">>, <<"e1", "e2">>, <<"e1", "a">>, <<"a", "a">> >>

\* the graph after add_entity for the first ids of the sequence
RECURSIVE WithEntities(_, _)
WithEntities(ids, count) ==
    IF count = 0 THEN EmptyGraph
    ELSE AddEntity(WithEntities(ids, count - 1),
                   Entity(ids[count], Spelling(ids[count]), "person")).self

\* the graph after add_relation for the chosen edges, in the order of the sequence
RECURSIVE WithRelations(_, _, _, _)
WithRelations(self, edges, chosen, count) ==
    IF count = 0 THEN self
    ELSE LET before == WithRelations(self, edges, chosen, count - 1)
         IN IF count \in chosen
            THEN AddRelation(before, Relation(edges[count][1], edges[count][2], "knows", WeightOne)).self
            ELSE before

\* self.adjacency[node]: the value, and the dict with the key
Neighbours(self, node) == DictGet(self.adjacency, node, {})

Touched(self, nodes) ==
    [self EXCEPT !.adjacency = [node \in DOMAIN @ \cup nodes |-> DictGet(@, node, {})]]

\* get_neighbors, lines 402-409: the loop over range(depth)
RECURSIVE Expand(_, _, _, _)
Expand(self, visited, frontier, rounds) ==
    IF rounds <= 0 THEN [self |-> self, visited |-> visited]
    ELSE LET new_frontier == UNION {Neighbours(self, node) : node \in frontier} \ visited
         IN Expand(Touched(self, frontier), visited \cup new_frontier, new_frontier, rounds - 1)

\* Faulty variant of GetNeighbors: the start node is not discarded.
GetNeighborsWithStart(self, entity_id, depth) ==
    IF entity_id \notin DOMAIN self.entities
    THEN [self |-> self, result |-> {}]
    ELSE LET expanded == Expand(self, {entity_id}, {entity_id}, depth)
         IN [self |-> expanded.self, result |-> expanded.visited]

\* get_neighbors: the graph after the call and the set it returns
GetNeighbors(self, entity_id, depth) ==
    IF entity_id \notin DOMAIN self.entities
    THEN [self |-> self, result |-> {}]
    ELSE LET expanded == Expand(self, {entity_id}, {entity_id}, depth)
         IN [self |-> expanded.self, result |-> expanded.visited \ {entity_id}]

\* orders in which a set of ids is iterated, as permutations of the positions in TraverseIds
Orders == { <<1, 2, 3, 4>>, <<4, 3, 2, 1>>, <<2, 4, 1, 3>>, <<3, 1, 4, 2>> }

\* the members of a set of ids as a list, in the given order
RECURSIVE Listed(_, _, _)
Listed(ids, order, position) ==
    IF position > Len(TraverseIds) THEN <<>>
    ELSE (IF TraverseIds[order[position]] \in ids THEN <<TraverseIds[order[position]]>> ELSE <<>>)
         \o Listed(ids, order, position + 1)

\* find_path, lines 502-508: the loop over the neighbours of the current node
RECURSIVE Scan(_, _, _, _, _)
Scan(neighbors, target_id, path, queue, visited) ==
    IF neighbors = <<>>
    THEN [found |-> FALSE, path |-> <<>>, queue |-> queue, visited |-> visited]
    ELSE LET neighbor == Head(neighbors)
         IN IF neighbor = target_id
            THEN [found |-> TRUE, path |-> Append(path, neighbor), queue |-> queue,
                  visited |-> visited]
            ELSE IF neighbor \notin visited
            THEN Scan(Tail(neighbors), target_id, path,
                      Append(queue, <<neighbor, Append(path, neighbor)>>),
                      visited \cup {neighbor})
            ELSE Scan(Tail(neighbors), target_id, path, queue, visited)

\* Faulty variant of Search: the search gives up one hop early.
RECURSIVE SearchShort(_, _, _, _, _, _)
SearchShort(self, target_id, max_depth, queue, visited, order) ==
    IF queue = <<>> THEN [self |-> self, result |-> <<>>]
    ELSE LET current == Head(queue)[1]
             path == Head(queue)[2]
         IN IF Len(path) >= max_depth
            THEN [self |-> self, result |-> <<>>]
            ELSE LET scanned == Scan(Listed(Neighbours(self, current), order, 1), target_id, path,
                                     Tail(queue), visited)
                 IN IF scanned.found
                    THEN [self |-> Touched(self, {current}), result |-> scanned.path]
                    ELSE SearchShort(Touched(self, {current}), target_id, max_depth, scanned.queue,
                                     scanned.visited, order)

\* find_path, lines 496-510: the loop over the queue
RECURSIVE Search(_, _, _, _, _, _)
Search(self, target_id, max_depth, queue, visited, order) ==
    IF queue = <<>> THEN [self |-> self, result |-> <<>>]
    ELSE LET current == Head(queue)[1]
             path == Head(queue)[2]
         IN IF Len(path) > max_depth
            THEN [self |-> self, result |-> <<>>]
            ELSE LET scanned == Scan(Listed(Neighbours(self, current), order, 1), target_id, path,
                                     Tail(queue), visited)
                 IN IF scanned.found
                    THEN [self |-> Touched(self, {current}), result |-> scanned.path]
                    ELSE Search(Touched(self, {current}), target_id, max_depth, scanned.queue,
                                scanned.visited, order)

\* find_path: the graph after the call and the list it returns; order is the
\* order in which the sets of neighbours are iterated
FindPath(self, source_id, target_id, max_depth, order) ==
    IF source_id \notin DOMAIN self.entities \/ target_id \notin DOMAIN self.entities
    THEN [self |-> self, result |-> <<>>]
    ELSE IF source_id = target_id
    THEN [self |-> self, result |-> <<source_id>>]
    ELSE Search(self, target_id, max_depth, << <<source_id, <<source_id>>>> >>, {source_id}, order)

InitTraverse ==
    /\ \E count \in (Len(TraverseIds) - 1)..Len(TraverseIds),
          chosen \in SUBSET (1..Len(TraverseEdges)) :
          graph = WithRelations(WithEntities(TraverseIds, count), TraverseEdges, chosen,
                                Len(TraverseEdges))
    /\ graph_file = NoFile
    /\ kg_saved = [document |-> NoFile, graph |-> EmptyGraph]
    /\ kg_count = [add |-> 0, save |-> 0, load |-> 0, relation |-> 0, recalculate |-> 0,
                   interrupted |-> 0, outside |-> 0, returned |-> <<>>]
    /\ kg_last = GraphObserved("init", NoArg, None)

CallGetNeighbors(entity_id, depth) ==
    /\ LET call == GetNeighbors(graph, entity_id, depth)
       IN /\ graph' = call.self
          /\ kg_last' = GraphObserved("get_neighbors", [entity_id |-> entity_id, depth |-> depth],
                                      call.result)
    /\ UNCHANGED <<graph_file, kg_saved, kg_count, notGraph>>

CallFindPath(source_id, target_id, max_depth, order) ==
    /\ LET call == FindPath(graph, source_id, target_id, max_depth, order)
       IN /\ graph' = call.self
          /\ kg_last' = GraphObserved("find_path",
                                      [source_id |-> source_id, target_id |-> target_id,
                                       max_depth |-> max_depth],
                                      call.result)
    /\ UNCHANGED <<graph_file, kg_saved, kg_count, notGraph>>

Ids(list) == {list[i] : i \in DOMAIN list}

NextTraverse ==
    \/ \E entity_id \in Ids(TraverseIds), depth \in Depths : CallGetNeighbors(entity_id, depth)
    \/ \E source_id \in Ids(TraverseIds), target_id \in Ids(TraverseIds), max_depth \in Depths,
          order \in Orders :
          CallFindPath(source_id, target_id, max_depth, order)

(***************************************************************************)
(* GraphRAG.query and GraphRAG.query_sync on graphs built by add_entity    *)
(* and add_relation.  The LLM's answer to _extract_query_entities is an    *)
(* input; the context string of the result is left out.                    *)
(***************************************************************************)
DefaultFindPathDepth == 3    \* find_path(..., max_depth: int = 3)
SyncQueryEntities == 3       \* query_sync: query_entities[:3]
SyncRelationCap == 10        \* query_sync: relations[:10]
MatchesPerWord == 2          \* matches[:2]
MinWordLength == 3           \* len(word) > 2

GraphRAGConfig(max_entities, max_depth, max_relations, max_paths, max_query_entities) ==
    [max_entities |-> max_entities, max_depth |-> max_depth, max_relations |-> max_relations,
     max_paths |-> max_paths, max_query_entities |-> max_query_entities]

\* GraphRAGConfig(): the defaults of the dataclass
DefaultConfig == GraphRAGConfig(5, 2, 10, 5, 3)

\* the configurations a GraphRAG is constructed with
Configs == {DefaultConfig, GraphRAGConfig(2, 1, 1, 1, 2), GraphRAGConfig(3, 2, 12, 0, 1)}

\* the names of the entities of the queried graphs
QueryNames(id) ==
    CASE id = "a" -> <<"T", "i", "t">>
      [] id = "b" -> <<"i", "t", "i">>
      [] id = "e1" -> <<"t", "i", "t", "i">>
      [] id = "e2" -> <<"t", "t", "i", "t">>

\* the query strings
Queries ==
    { <<"i", "t">>,
      <<"T", "i", "t">>,
      <<"i", "t", "i", " ", "t", "i", "t">>,
      <<"t", "t", "t">> }

\* what the LLM call of _extract_query_entities gives: an exception, or a list of names
Answer(failed, names) == [failed |-> failed, names |-> names]

Answers ==
    { Answer(TRUE, <<>>), Answer(FALSE, << <<"i", "t">> >>),
      Answer(FALSE, << <<"i", "t", "i">>, <<"T", "i", "t">> >>) }

\* seq[:n] for n >= 0
Take(seq, n) == SubSeq(seq, 1, IF n < Len(seq) THEN n ELSE Len(seq))

\* word in name
IsSubstring(word, name) ==
    \E i \in 0..(Len(name) - Len(word)) : SubSeq(name, i + 1, i + Len(word)) = word

\* find_entities_by_name, as ids: the entities are listed in the order they were added
FindEntitiesByName(self, name) ==
    Listed({id \in DOMAIN self.entities : IsSubstring(Lower(name), Lower(self.entities[id].name))},
           [i \in DOMAIN TraverseIds |-> i], 1)

\* _extract_query_entities, lines 1032-1043
RECURSIVE FirstMatches(_, _)
FirstMatches(self, entity_names) ==
    IF entity_names = <<>> THEN <<>>
    ELSE Take(FindEntitiesByName(self, Head(entity_names)), 1)
         \o FirstMatches(self, Tail(entity_names))

ExtractQueryEntities(self, answer) ==
    IF answer.failed THEN <<>> ELSE FirstMatches(self, answer.names)

\* the ids of the first two matches of every word of more than two characters
RECURSIVE WordMatches(_, _)
WordMatches(self, words) ==
    IF words = <<>> THEN <<>>
    ELSE (IF Len(Head(words)) >= MinWordLength
          THEN Take(FindEntitiesByName(self, Head(words)), MatchesPerWord)
          ELSE <<>>)
         \o WordMatches(self, Tail(words))

\* the loop over query_entities: the graph after the get_neighbors calls and related_entity_ids
RECURSIVE Related(_, _, _, _)
Related(self, query_entities, max_depth, related_entity_ids) ==
    IF query_entities = <<>> THEN [self |-> self, result |-> related_entity_ids]
    ELSE LET call == GetNeighbors(self, Head(query_entities), max_depth)
         IN Related(call.self, Tail(query_entities), max_depth,
                    related_entity_ids \cup call.result \cup {Head(query_entities)})

\* [e for e in ids if get_entity(e)]
RECURSIVE Existing(_, _)
Existing(self, ids) ==
    IF ids = <<>> THEN <<>>
    ELSE (IF Head(ids) \in DOMAIN self.entities THEN <<Head(ids)>> ELSE <<>>)
         \o Existing(self, Tail(ids))

\* the relations of the entities, one after the other
RECURSIVE RelationsOf(_, _)
RelationsOf(self, entities) ==
    IF entities = <<>> THEN <<>>
    ELSE GetRelationsForEntity(self, Head(entities)) \o RelationsOf(self, Tail(entities))

\* list({r.id: r for r in relations}.values()): one per id, in the order of first appearance
RECURSIVE ById(_, _)
ById(relations, seen) ==
    IF relations = <<>> THEN <<>>
    ELSE IF Head(relations) \in seen THEN ById(Tail(relations), seen)
    ELSE <<Head(relations)>> \o ById(Tail(relations), seen \cup {Head(relations)})

\* query, lines 990-994: the pairs (eid1, eid2) in the order of the two loops
Pairs(entity_ids, max_query_entities) ==
    LET firsts == Take(entity_ids, max_query_entities)
        RECURSIVE InnerLoop(_, _)
        InnerLoop(i, j) ==
            IF j > Len(entity_ids) \/ j > max_query_entities + 1 THEN <<>>
            ELSE << <<entity_ids[i], entity_ids[j]>> >> \o InnerLoop(i, j + 1)
        RECURSIVE OuterLoop(_)
        OuterLoop(i) == IF i > Len(firsts) THEN <<>> ELSE InnerLoop(i, i + 1) \o OuterLoop(i + 1)
    IN OuterLoop(1)

\* the find_path calls of query: the graph after them and the paths of more than one node
RECURSIVE Paths(_, _, _, _)
Paths(self, pairs, order, paths) ==
    IF pairs = <<>> THEN [self |-> self, result |-> paths]
    ELSE LET call == FindPath(self, Head(pairs)[1], Head(pairs)[2], DefaultFindPathDepth, order)
         IN Paths(call.self, Tail(pairs), order,
                  IF Len(call.result) > 1 THEN Append(paths, call.result) ELSE paths)

NoNumber == -1    \* None for max_entities and max_depth

GraphQueryResult(entities, relations, paths) ==
    [entities |-> entities, relations |-> relations, paths |-> paths]

\* query: the graph after the call and the result; order is the order in
\* which sets of ids are iterated
Query(self, this, query, answer, max_entities_arg, max_depth_arg, order) ==
    LET cfg == this.config
        max_entities == IF max_entities_arg = NoNumber THEN cfg.max_entities ELSE max_entities_arg
        max_depth == IF max_depth_arg = NoNumber THEN cfg.max_depth ELSE max_depth_arg
        extracted == ExtractQueryEntities(self, answer)
        query_entities == IF extracted # <<>> THEN extracted
                          ELSE WordMatches(self, Split(Lower(query), <<>>, <<>>))
    IN IF ~this.client \/ query_entities = <<>>
       THEN [self |-> self, result |-> GraphQueryResult(<<>>, <<>>, <<>>)]
       ELSE LET related == Related(self, Take(query_entities, cfg.max_query_entities), max_depth, {})
                entities == Existing(related.self,
                                     Take(Listed(related.result, order, 1), max_entities))
                relations == ById(RelationsOf(related.self, entities), {})
                found == Paths(related.self, Pairs(entities, cfg.max_query_entities), order, <<>>)
            IN [self |-> found.self,
                result |-> GraphQueryResult(entities, Take(relations, cfg.max_relations),
                                            Take(found.result, cfg.max_paths))]

\* query_sync: the graph after the call and the result
QuerySync(self, this, query, max_entities, max_depth, order) ==
    LET query_entities == WordMatches(self, Split(Lower(query), <<>>, <<>>))
    IN IF query_entities = <<>>
       THEN [self |-> self, result |-> GraphQueryResult(<<>>, <<>>, <<>>)]
       ELSE LET related == Related(self, Take(query_entities, SyncQueryEntities), max_depth, {})
                entities == Existing(related.self,
                                     Take(Listed(related.result, order, 1), max_entities))
                relations == ById(RelationsOf(related.self, entities), {})
            IN [self |-> related.self,
                result |-> GraphQueryResult(entities, Take(relations, SyncRelationCap), <<>>)]

\* the graph after add_entity for the first ids of the sequence, under their query names
RECURSIVE WithNamedEntities(_, _)
WithNamedEntities(ids, count) ==
    IF count = 0 THEN EmptyGraph
    ELSE AddEntity(WithNamedEntities(ids, count - 1),
                   Entity(ids[count], QueryNames(ids[count]), "person")).self

\* a GraphRAG with the default configuration
RestRag == rag = [client |-> TRUE, config |-> DefaultConfig]

InitQuery ==
    /\ \E count \in (Len(TraverseIds) - 1)..Len(TraverseIds),
          chosen \in SUBSET (1..Len(TraverseEdges)) :
          graph = WithRelations(WithNamedEntities(TraverseIds, count), TraverseEdges, chosen,
                                Len(TraverseEdges))
    /\ graph_file = NoFile
    /\ kg_saved = [document |-> NoFile, graph |-> EmptyGraph]
    /\ kg_count = [add |-> 0, save |-> 0, load |-> 0, relation |-> 0, recalculate |-> 0,
                   interrupted |-> 0, outside |-> 0, returned |-> <<>>]
    /\ kg_last = GraphObserved("init", NoArg, None)
    /\ rag \in [client : BOOLEAN, config : Configs]

\* the max_entities and max_depth arguments: None (query only), or a number
EntityCaps == {NoNumber, 1, 3}
DepthArgs == {NoNumber, 1}

CallQuery(query, answer, max_entities, max_depth, order) ==
    /\ LET call == Query(graph, rag, query, answer, max_entities, max_depth, order)
       IN /\ graph' = call.self
          /\ kg_last' = GraphObserved("query",
                                      [max_entities |-> IF max_entities = NoNumber
                                                        THEN rag.config.max_entities
                                                        ELSE max_entities],
                                      call.result)
    /\ UNCHANGED <<graph_file, kg_saved, kg_count, notGraph>>

CallQuerySync(query, max_entities, max_depth, order) ==
    /\ LET call == QuerySync(graph, rag, query, max_entities, max_depth, order)
       IN /\ graph' = call.self
          /\ kg_last' = GraphObserved("query_sync", [max_entities |-> max_entities], call.result)
    /\ UNCHANGED <<graph_file, kg_saved, kg_count, notGraph>>

\* the iteration orders of the queries
QueryOrders == { <<1, 2, 3, 4>>, <<4, 3, 2, 1>> }

NextQuery ==
    \/ \E query \in Queries, answer \in Answers, max_entities \in EntityCaps,
          max_depth \in DepthArgs, order \in QueryOrders :
          CallQuery(query, answer, max_entities, max_depth, order)
    \/ \E query \in Queries, max_entities \in EntityCaps \ {NoNumber}, max_depth \in DepthArgs \ {NoNumber},
          order \in QueryOrders :
          CallQuerySync(query, max_entities, max_depth, order)

(***************************************************************************)
(* The maintenance script pg_memory_gc.py: cmd_full runs phases 1 to 7 on  *)
(* one psycopg2 connection and phase 8 on a second one.  The tables are    *)
(* functions from row ids to rows.  Contents are sequences of characters;  *)
(* "*" is an emoji, "L" stands for 2000 plain characters in a row and "P"  *)
(* for 500, so that the length tests and the 500-character prefix are      *)
(* computed.  SHA-256 is taken to be injective.  A statement that the      *)
(* server rejects raises in the client and leaves the connection's         *)
(* transaction aborted: every later statement on the connection raises     *)
(* until a rollback.                                                       *)
(***************************************************************************)
LongLength == 2000        \* length(content) > 2000
HashPrefix == 500         \* content.strip().lower()[:500]
MinSummaryLength == 5     \* len(cleaned) >= 5
DefaultImportance == 50   \* importance or 0.5
ArchiveDays == 90         \* INTERVAL '90 days'
PatternDays == 30         \* INTERVAL '30 days' of phase 6
StaleDays == 30           \* INTERVAL '30 days' of phase 7
StaleMentions == 3        \* mentions < 3
WeakWeight == 10          \* weight < 0.1
MaxRetries == 2           \* _summarize_single(..., max_retries=2)
ManagedTables == 6        \* the tables phase 8 vacuums

Emoji == "*"

CharLength(c) == CASE c = "L" -> LongLength [] c = "P" -> HashPrefix [] OTHER -> 1

\* len(text)
RECURSIVE Length(_)
Length(text) == IF text = <<>> THEN 0 ELSE CharLength(Head(text)) + Length(Tail(text))

\* text[:n], for texts whose blocks end at or before n or start after it
RECURSIVE Prefix(_, _)
Prefix(text, n) ==
    IF text = <<>> \/ CharLength(Head(text)) > n THEN <<>>
    ELSE <<Head(text)>> \o Prefix(Tail(text), n - CharLength(Head(text)))

\* content ~ _EMOJI_RE.pattern
HasEmoji(text) == \E i \in DOMAIN text : text[i] = Emoji

\* remove_emoji
RemoveEmoji(text) == SelectSeq(text, LAMBDA c : c # Emoji)

\* _content_hash: the normalized content that is hashed
ContentHash(content) == Prefix(Lower(Strip(content)), HashPrefix)

\* the rows of a table that satisfy a condition
Rows(table, Condition(_)) == {id \in DOMAIN table : Condition(table[id])}

\* DELETE of the rows with the given ids
DeleteRows(table, ids) == [id \in DOMAIN table \ ids |-> table[id]]

\* conn.commit()
Commit(db) == [db EXCEPT !.commits = @ + 1]

\* phase1_emoji_strip: the tables after the phase and its result
Phase1EmojiStrip(db, dry_run) ==
    LET msg_rows == Rows(db.messages, HasEmoji)
        mem_rows == {id \in DOMAIN db.memories : HasEmoji(db.memories[id].content)}
        result == [messages_updated |-> Cardinality(msg_rows),
                   memories_updated |-> Cardinality(mem_rows)]
    IN IF dry_run
       THEN [db |-> db, result |-> result]
       ELSE [db |-> Commit([db EXCEPT
                !.messages = [id \in DOMAIN @ |-> RemoveEmoji(@[id])],
                !.memories = [id \in DOMAIN @ |-> [@[id] EXCEPT !.content = RemoveEmoji(@)]]]),
             result |-> result]

\* what one generate_content call gives: an exception, or a response text
Attempt(raised, text) == [raised |-> raised, text |-> text]

\* _summarize_single: the summary of the first attempt that gives one, or
\* none, and the number of generate_content calls made
RECURSIVE SummarizeSingle(_, _)
SummarizeSingle(attempts, calls) ==
    IF attempts = <<>> THEN [status |-> "error", cleaned |-> <<>>, calls |-> calls]
    ELSE LET attempt == Head(attempts)
             cleaned == Strip(attempt.text)
         IN IF ~attempt.raised /\ attempt.text # <<>> /\ Length(cleaned) >= MinSummaryLength
            THEN [status |-> "updated", cleaned |-> cleaned, calls |-> calls + 1]
            ELSE SummarizeSingle(Tail(attempts), calls + 1)

\* the generate_content calls of the futures, added up
RECURSIVE CallsMade(_, _)
CallsMade(outcome, ids) ==
    IF ids = {} THEN 0
    ELSE LET id == CHOOSE x \in ids : TRUE
         IN outcome[id].calls + CallsMade(outcome, ids \ {id})

\* phase2_llm_summarize; keys: whether .env holds an API key; attempts: per
\* message, what its generate_content calls give
Phase2LlmSummarize(db, dry_run, keys, attempts) ==
    LET long_msgs == {id \in DOMAIN db.messages : Length(db.messages[id]) > LongLength}
        candidates == Cardinality(long_msgs)
        outcome == [id \in long_msgs |-> SummarizeSingle(Take(attempts[id], MaxRetries), 0)]
        updated == {id \in long_msgs : outcome[id].status = "updated" /\ outcome[id].cleaned # <<>>}
    IN IF long_msgs = {}
       THEN [db |-> db, result |-> [candidates |-> 0, updated |-> 0]]
       ELSE IF dry_run
       THEN [db |-> db, result |-> [candidates |-> candidates, updated |-> 0]]
       ELSE IF ~keys
       THEN [db |-> db, result |-> [candidates |-> candidates, updated |-> 0, error |-> "ValueError"]]
       ELSE [db |-> Commit([db EXCEPT
                !.messages = [id \in DOMAIN @ |-> IF id \in updated THEN outcome[id].cleaned
                                                    ELSE @[id]],
                !.llm_calls = @ + CallsMade(outcome, long_msgs)]),
             result |-> [candidates |-> candidates, updated |-> Cardinality(updated),
                         errors |-> candidates - Cardinality(updated)]]

\* importance or 0.5
SortKey(importance) == IF importance = 0 THEN DefaultImportance ELSE importance

\* phase3_hash_dedup, lines 306-310: the entry of a group that the sort puts
\* first; rows is the order in which the SELECT gave the rows
Kept(db, rows, group) ==
    LET first == CHOOSE i \in DOMAIN rows :
            /\ rows[i] \in group
            /\ \A j \in DOMAIN rows : rows[j] \in group =>
                  \/ SortKey(db.memories[rows[j]].importance) < SortKey(db.memories[rows[i]].importance)
                  \/ /\ SortKey(db.memories[rows[j]].importance) = SortKey(db.memories[rows[i]].importance)
                     /\ i <= j
    IN rows[first]

\* phase3_hash_dedup
Phase3HashDedup(db, dry_run, rows) ==
    LET ids == DOMAIN db.memories
        Group(id) == {other \in ids : ContentHash(db.memories[other].content)
                                      = ContentHash(db.memories[id].content)}
        to_delete == {id \in ids : Cardinality(Group(id)) > 1 /\ id # Kept(db, rows, Group(id))}
        result == [total |-> Cardinality(ids), duplicates |-> Cardinality(to_delete)]
    IN IF to_delete = {} \/ dry_run
       THEN [db |-> db, result |-> result]
       ELSE [db |-> Commit([db EXCEPT !.memories = DeleteRows(@, to_delete)]), result |-> result]

\* phase4_decay_cleanup on the memories table
Phase4DecayCleanupRun(db, dry_run) ==
    LET candidates == Rows(db.memories, Phase4Condition)
        result == [deleted |-> Cardinality(candidates)]
    IN IF candidates = {} \/ dry_run
       THEN [db |-> db, result |-> result]
       ELSE [db |-> Commit([db EXCEPT !.memories = DeleteRows(@, candidates)]), result |-> result]

OldArchive(row) == row.age > ArchiveDays

\* phase5_archive_cleanup, after its first SELECT succeeded
Phase5ArchiveCleanup(db, dry_run) ==
    LET old == Rows(db.archived_messages, OldArchive)
        result == [deleted |-> Cardinality(old)]
    IN IF old = {} \/ dry_run
       THEN [db |-> db, result |-> result]
       ELSE [db |-> Commit([db EXCEPT !.archived_messages = DeleteRows(@, old)]),
             result |-> result]

OldPattern(row) == row.age > PatternDays

\* phase6_meta_cleanup
Phase6MetaCleanup(db, dry_run) ==
    LET old == Rows(db.memory_access_patterns, OldPattern)
        result == [deleted |-> Cardinality(old)]
    IN IF old = {} \/ dry_run
       THEN [db |-> db, result |-> result]
       ELSE [db |-> Commit([db EXCEPT !.memory_access_patterns = DeleteRows(@, old)]),
             result |-> result]

\* phase8_vacuum, on a connection of its own
Phase8Vacuum(db, dry_run) ==
    IF dry_run
    THEN [db |-> db, result |-> [status |-> "skipped"]]
    ELSE [db |-> [db EXCEPT !.vacuums = @ + ManagedTables],
          result |-> [status |-> "done", tables |-> ManagedTables]]

Stale(row) == row.mentions < StaleMentions /\ row.age > StaleDays

Weak(row) == row.weight < WeakWeight

\* Faulty variant of DeleteStaleRelations: the relations of the stale entities are left.
DeleteStaleRelationsNone(db) == db

\* phase7_kg_cleanup, lines 449-457: DELETE FROM relations WHERE source_id IN
\* (stale) OR target_id IN (stale)

DeleteStaleRelations(db) ==
    LET stale == Rows(db.entities, Stale)
    IN [db EXCEPT !.relations =
            DeleteRows(@, {id \in DOMAIN @ : @[id].source_id \in stale \/ @[id].target_id \in stale})]

\* lines 458-463: DELETE FROM entities WHERE mentions < 3 AND created_at < NOW() - INTERVAL '30 days'
DeleteStaleEntities(db) == [db EXCEPT !.entities = DeleteRows(@, Rows(@, Stale))]

\* the relations with an endpoint that is not in entities
Orphans(db) ==
    {id \in DOMAIN db.relations :
        \/ db.relations[id].source_id \notin DOMAIN db.entities
        \/ db.relations[id].target_id \notin DOMAIN db.entities}

\* lines 471-474: DELETE FROM relations WHERE weight < 0.1
DeleteWeakRelations(db) == [db EXCEPT !.relations = DeleteRows(@, Rows(@, Weak))]

\* lines 488-494: DELETE of the orphan relations
DeleteOrphanRelations(db) == [db EXCEPT !.relations = DeleteRows(@, Orphans(db))]

\* the state of the run before cmd_full is called
NoRun ==
    [pc |-> 0, stmt |-> 0, dry_run |-> FALSE, conn |-> "none", started |-> <<>>, results |-> <<>>,
     gc_errors |-> <<>>, summary |-> FALSE, rejected |-> {},
     local |-> [entities_deleted |-> 0, relations_weak |-> 0, relations_orphan |-> 0]]

\* the names of the phases in cmd_full
PhaseNames ==
    <<"Phase 1", "Phase 2", "Phase 3", "Phase 4", "Phase 5", "Phase 6", "Phase 7", "Phase 8">>

GcObserved(op, raised) == [op |-> op, raised |-> raised]

\* the tables a run starts on
Tables(messages, memories, archived_messages, memory_access_patterns, entities, relations) ==
    [messages |-> messages, memories |-> memories, archived_messages |-> archived_messages,
     memory_access_patterns |-> memory_access_patterns, entities |-> entities,
     relations |-> relations, commits |-> 0, llm_calls |-> 0, vacuums |-> 0]

EmptyTables == Tables(<<>>, <<>>, <<>>, <<>>, <<>>, <<>>)

RestGc ==
    /\ gc_db = [view |-> EmptyTables, committed |-> EmptyTables]
    /\ gc_run = NoRun
    /\ gc_last = GcObserved("init", FALSE)

notGc == <<now, cbVars, caVars, coVars, arVars, memVars, kgVars, rag, gw, cd>>

\* cmd_full up to the loop over the phases
CmdFull(dry_run) ==
    /\ gc_run.pc = 0
    /\ gc_run' = [gc_run EXCEPT !.pc = 1, !.dry_run = dry_run, !.conn = "ok"]
    /\ gc_last' = GcObserved("cmd_full", FALSE)
    /\ UNCHANGED <<gc_db, notGc>>

\* cmd_full, lines 606-611, for a phase that raised
Raised(run, phase) ==
    [run EXCEPT !.pc = phase + 1, !.stmt = 0, !.conn = "aborted",
                !.started = IF @ # <<>> /\ @[Len(@)] = phase THEN @ ELSE Append(@, phase),
                !.gc_errors = Append(@, phase)]

\* cmd_full, lines 606-608, for a phase that returned
Returned(run, phase, result) ==
    [run EXCEPT !.pc = phase + 1, !.stmt = 0,
                !.started = IF @ # <<>> /\ @[Len(@)] = phase THEN @ ELSE Append(@, phase),
                !.results = DictSet(@, phase, result)]

\* One iteration of the loop of cmd_full for a phase that is one step of the
\* model: the phase raises at its first statement if the transaction is
\* aborted or the server rejects the statement, and otherwise runs.
RunPhase(phase, call, reject) ==
    /\ gc_run.pc = phase
    /\ reject => gc_run.conn = "ok"
    /\ IF reject \/ gc_run.conn = "aborted"
       THEN /\ gc_run' = [Raised(gc_run, phase) EXCEPT
                             !.rejected = IF reject THEN @ \cup {phase} ELSE @]
            /\ gc_db' = gc_db
            /\ gc_last' = GcObserved(PhaseNames[phase], TRUE)
       ELSE /\ gc_run' = Returned(gc_run, phase, call.result)
            /\ gc_db' = [view |-> call.db,
                         committed |-> IF call.db.commits > gc_db.view.commits
                                       THEN call.db ELSE gc_db.committed]
            /\ gc_last' = GcObserved(PhaseNames[phase], FALSE)
    /\ UNCHANGED notGc

\* the lists of generate_content outcomes of one message
AttemptLists ==
    { << Attempt(TRUE, <<>>), Attempt(TRUE, <<>>) >>,
      << Attempt(FALSE, <<"t", "i">>), Attempt(FALSE, <<" ", "t", "i", "t", "i", "t", " ">>) >>,
      << Attempt(FALSE, <<>>), Attempt(TRUE, <<>>) >> }

\* the orders in which phase 3's SELECT gives the rows
RowOrders == { <<"m1", "m2", "m3">>, <<"m3", "m2", "m1">>, <<"m2", "m3", "m1">> }

Phase1(reject) == RunPhase(1, Phase1EmojiStrip(gc_db.view, gc_run.dry_run), reject)

Phase2(reject, keys, attempts) ==
    RunPhase(2, Phase2LlmSummarize(gc_db.view, gc_run.dry_run, keys, attempts), reject)

Phase3(reject, rows) == RunPhase(3, Phase3HashDedup(gc_db.view, gc_run.dry_run, rows), reject)

Phase4(reject) == RunPhase(4, Phase4DecayCleanupRun(gc_db.view, gc_run.dry_run), reject)

\* phase5_archive_cleanup: a failure of its first SELECT is answered by a
\* rollback and a result that says skipped
Phase5(reject) ==
    /\ gc_run.pc = 5
    /\ reject => gc_run.conn = "ok"
    /\ IF reject \/ gc_run.conn = "aborted"
       THEN /\ gc_run' = [Returned(gc_run, 5, [deleted |-> 0, skipped |-> TRUE]) EXCEPT
                             !.conn = "ok",
                             !.rejected = IF reject THEN @ \cup {5} ELSE @]
            /\ gc_db' = [gc_db EXCEPT !.view = gc_db.committed]
            /\ gc_last' = GcObserved(PhaseNames[5], FALSE)
            /\ UNCHANGED notGc
       ELSE RunPhase(5, Phase5ArchiveCleanup(gc_db.view, gc_run.dry_run), FALSE)

Phase6(reject) == RunPhase(6, Phase6MetaCleanup(gc_db.view, gc_run.dry_run), reject)

\* One statement of phase7_kg_cleanup: stmt 0 counts the stale entities, 1
\* deletes their relations, 2 deletes them, 3 counts and deletes the weak
\* relations, 4 the orphans, 5 commits and returns.
Phase7Statement(reject) ==
    /\ gc_run.pc = 7
    /\ reject => gc_run.conn = "ok" /\ gc_run.stmt < 5
    /\ IF reject \/ gc_run.conn = "aborted"
       THEN /\ gc_run' = [Raised(gc_run, 7) EXCEPT
                             !.rejected = IF reject THEN @ \cup {7} ELSE @]
            /\ gc_db' = gc_db
            /\ gc_last' = GcObserved(PhaseNames[7], TRUE)
       ELSE LET db == gc_db.view
                dry_run == gc_run.dry_run
                stale == Cardinality(Rows(db.entities, Stale))
                weak == Rows(db.relations, Weak)
                begun == [gc_run EXCEPT !.started = IF @ # <<>> /\ @[Len(@)] = 7 THEN @
                                                     ELSE Append(@, 7)]
            IN /\ gc_last' = GcObserved(PhaseNames[7], FALSE)
               /\ CASE gc_run.stmt = 0 ->
                        /\ gc_run' = [begun EXCEPT
                                        !.stmt = IF stale > 0 /\ ~dry_run THEN 1 ELSE 3,
                                        !.local = [entities_deleted |-> IF dry_run THEN stale ELSE 0,
                                                   relations_weak |-> 0, relations_orphan |-> 0]]
                        /\ gc_db' = gc_db
                    [] gc_run.stmt = 1 ->
                        /\ gc_run' = [gc_run EXCEPT !.stmt = 2]
                        /\ gc_db' = [gc_db EXCEPT !.view = DeleteStaleRelations(db)]
                    [] gc_run.stmt = 2 ->
                        /\ gc_run' = [gc_run EXCEPT !.stmt = 3, !.local.entities_deleted = stale]
                        /\ gc_db' = [gc_db EXCEPT !.view = DeleteStaleEntities(db)]
                    [] gc_run.stmt = 3 ->
                        /\ gc_run' = [gc_run EXCEPT !.stmt = 4,
                                                    !.local.relations_weak = Cardinality(weak)]
                        /\ gc_db' = IF dry_run THEN gc_db
                                    ELSE [gc_db EXCEPT !.view = DeleteWeakRelations(db)]
                    [] gc_run.stmt = 4 ->
                        /\ gc_run' = [gc_run EXCEPT !.stmt = 5,
                                                    !.local.relations_orphan = Cardinality(Orphans(db))]
                        /\ gc_db' = IF dry_run THEN gc_db
                                    ELSE [gc_db EXCEPT !.view = DeleteOrphanRelations(db)]
                    [] gc_run.stmt = 5 ->
                        /\ gc_run' = Returned(gc_run, 7, gc_run.local)
                        /\ gc_db' = IF dry_run THEN gc_db
                                    ELSE [view |-> Commit(db), committed |-> Commit(db)]
    /\ UNCHANGED notGc

\* cmd_full, lines 613-619: conn.close(), which rolls back what was not
\* committed, and phase 8; reject: the second connection cannot be made
CloseAndVacuum(reject) ==
    /\ gc_run.pc = 8
    /\ LET call == Phase8Vacuum(gc_db.committed, gc_run.dry_run)
       IN IF reject /\ ~gc_run.dry_run
          THEN /\ gc_run' = [Raised(gc_run, 8) EXCEPT !.conn = "closed", !.rejected = @ \cup {8}]
               /\ gc_db' = [view |-> gc_db.committed, committed |-> gc_db.committed]
               /\ gc_last' = GcObserved(PhaseNames[8], TRUE)
          ELSE /\ ~reject
               /\ gc_run' = [Returned(gc_run, 8, call.result) EXCEPT !.conn = "closed"]
               /\ gc_db' = [view |-> call.db, committed |-> call.db]
               /\ gc_last' = GcObserved(PhaseNames[8], FALSE)
    /\ UNCHANGED notGc

\* cmd_full, lines 621-629
Summary ==
    /\ gc_run.pc = 9
    /\ gc_run' = [gc_run EXCEPT !.pc = 10, !.summary = TRUE]
    /\ gc_last' = GcObserved("summary", FALSE)
    /\ UNCHANGED <<gc_db, notGc>>

NextGc ==
    \/ \E dry_run \in BOOLEAN : CmdFull(dry_run)
    \/ \E reject \in BOOLEAN : Phase1(reject)
    \/ \E reject \in BOOLEAN, keys \in BOOLEAN,
          attempts \in [DOMAIN gc_db.view.messages -> AttemptLists] :
          Phase2(reject, keys, attempts)
    \/ \E reject \in BOOLEAN, rows \in RowOrders : Phase3(reject, rows)
    \/ \E reject \in BOOLEAN : Phase4(reject)
    \/ \E reject \in BOOLEAN : Phase5(reject)
    \/ \E reject \in BOOLEAN : Phase6(reject)
    \/ \E reject \in BOOLEAN : Phase7Statement(reject)
    \/ \E reject \in BOOLEAN : CloseAndVacuum(reject)
    \/ Summary

\* phase3_hash_dedup(conn, dry_run) called on its own
CallPhase3(dry_run, rows) ==
    /\ gc_run.pc = 0
    /\ LET call == Phase3HashDedup(gc_db.view, dry_run, rows)
       IN /\ gc_db' = [view |-> call.db, committed |-> call.db]
          /\ gc_last' = [op |-> "phase3_hash_dedup", raised |-> FALSE, dry_run |-> dry_run,
                         pre |-> gc_db.view.memories, result |-> call.result]
    /\ UNCHANGED <<gc_run, notGc>>

NextDedup == \E dry_run \in BOOLEAN, rows \in RowOrders : CallPhase3(dry_run, rows)

MemoryRow(content, importance, decayed_importance, access_count) ==
    [content |-> content, importance |-> importance, decayed_importance |-> decayed_importance,
     access_count |-> access_count]

\* the memories of the dedup runs: importance 0, 0.3 and 0.8, nothing for phase 4
DedupContents == { <<"t">>, <<" ", "T">>, <<"P", "t">>, <<"P", "i">>, <<"i", Emoji>> }
DedupLevels == {0, 30, 80}
DedupRows ==
    {MemoryRow(content, importance, NoLevel, 2) : content \in DedupContents, importance \in DedupLevels}

InitDedup ==
    /\ \E memories \in [{"m1", "m2", "m3"} -> DedupRows] :
          gc_db = [view |-> Tables(<<>>, memories, <<>>, <<>>, <<>>, <<>>),
                   committed |-> Tables(<<>>, memories, <<>>, <<>>, <<>>, <<>>)]
    /\ gc_run = NoRun
    /\ gc_last = [op |-> "init", raised |-> FALSE, dry_run |-> FALSE, pre |-> <<>>,
                  result |-> [total |-> 0, duplicates |-> 0]]

\* the tables of the full runs
RunMessages == (1 :> <<"t", Emoji>>) @@ (2 :> <<"L", "t">>)
RunMemories ==
    ("m1" :> MemoryRow(<<"t", Emoji>>, 30, NoLevel, 2))
    @@ ("m2" :> MemoryRow(<<" ", "T", Emoji>>, 80, NoLevel, 2))
    @@ ("m3" :> MemoryRow(<<"i">>, 5, NoLevel, 1))
RunArchive == (1 :> [age |-> 91]) @@ (2 :> [age |-> 90])
RunPatterns == (1 :> [age |-> 31]) @@ (2 :> [age |-> 30])
EntityRows == {[mentions |-> 1, age |-> 31], [mentions |-> 3, age |-> 31], [mentions |-> 2, age |-> 30]}
RunRelations ==
    (1 :> [source_id |-> "e1", target_id |-> "e2", weight |-> 50])
    @@ (2 :> [source_id |-> "e2", target_id |-> "e3", weight |-> 5])
    @@ (3 :> [source_id |-> "e1", target_id |-> "e1", weight |-> 5])
    @@ (4 :> [source_id |-> "e2", target_id |-> "e2", weight |-> 10])

InitMaintain ==
    /\ \E entities \in [{"e1", "e2"} -> EntityRows], kept \in SUBSET DOMAIN RunRelations :
          LET tables == Tables(RunMessages, RunMemories, RunArchive, RunPatterns, entities,
                               [id \in kept |-> RunRelations[id]])
          IN gc_db = [view |-> tables, committed |-> tables]
    /\ gc_run = NoRun
    /\ gc_last = GcObserved("init", FALSE)

(***************************************************************************)
(* GraphRAG.extract_and_store                                              *)
(***************************************************************************)
\* GraphRAGConfig.importance_threshold, in tenths
ImportanceThreshold == 6

\* successful extract_and_store calls in a behaviour
MaxExtracts == 2

\* the entity names the extraction returns
ExtractedNames ==
    { <<"t", " ", "i">>,
      <<" ", "t", " ", "i", " ">>,
      <<"i", "t">> }

\* one element of data["entities"]
ExtractedEntity(name, type, importance) ==
    [name |-> name, type |-> type, importance |-> importance]

\* every name with every type at importance 0.7, and one entity at 0.5
ExtractedEntities ==
    {ExtractedEntity(name, type, 7) : name \in ExtractedNames, type \in EntityTypes}
        \cup {ExtractedEntity(<<"i", "t">>, "person", 5)}

\* one element of data["relations"]
ExtractedRelation(source, target) == [source |-> source, target |-> target]

ExtractedRelations ==
    {ExtractedRelation(source, target) : source \in ExtractedNames, target \in ExtractedNames}

\* str.replace(" ", "_")
ReplaceSpaces(name) == [i \in DOMAIN name |-> IF name[i] = " " THEN "_" ELSE name[i]]

\* entity_id = e["name"].lower().replace(" ", "_")
EntityIdOf(name) == Unspell(ReplaceSpaces(Lower(name)))

\* the loop over the extracted entities: filter by importance, add_entity,
\* then entity_map and added_entities are written whatever add_entity returned
RECURSIVE EntityLoop(_, _, _)
EntityLoop(acc, entities, importance_threshold) ==
    IF entities = <<>>
    THEN acc
    ELSE LET e == Head(entities)
             entity_id == EntityIdOf(e.name)
             call == AddEntity(acc.graph, Entity(entity_id, e.name, e.type))
         IN IF e.importance < importance_threshold
            THEN EntityLoop([acc EXCEPT !.filtered_entities = Append(@, e.name)],
                            Tail(entities), importance_threshold)
            ELSE EntityLoop([acc EXCEPT !.graph = call.self,
                                        !.entity_map = DictSet(@, e.name, entity_id),
                                        !.added_entities = Append(@, entity_id)],
                            Tail(entities), importance_threshold)

\* the loop over the extracted relations: both names must be in entity_map;
\* relation.id is appended whatever add_relation returned
RECURSIVE RelationLoop(_, _)
RelationLoop(acc, relations) ==
    IF relations = <<>>
    THEN acc
    ELSE LET r == Head(relations)
             source_id == DictGet(acc.entity_map, r.source, None)
             target_id == DictGet(acc.entity_map, r.target, None)
             relation == Relation(source_id, target_id, "knows", WeightOne)
             call == AddRelation(acc.graph, relation)
         IN IF Truthy(source_id) /\ Truthy(target_id)
            THEN RelationLoop([acc EXCEPT !.graph = call.self,
                                          !.added_relations = Append(@, RelationId(relation))],
                              Tail(relations))
            ELSE RelationLoop(acc, Tail(relations))

Locals(self) ==
    [graph |-> self, entity_map |-> <<>>, added_entities |-> <<>>,
     filtered_entities |-> <<>>, added_relations |-> <<>>]

\* the dict returned: an error entry with zero counts, or the counts and ids
ExtractResult(error, added_entities, filtered, added_relations) ==
    [error |-> error, entities_added |-> Len(added_entities), entities_filtered |-> filtered,
     relations_added |-> Len(added_relations), entities |-> added_entities,
     relations |-> added_relations]

\* extract_and_store(text): needs_llm chooses the NER-only path or the LLM
\* path, outcome is what the LLM call did, entities and relations are the
\* extracted lists; saved says whether graph.save() was called
ExtractAndStore(self, this, needs_llm, outcome, entities, relations) ==
    LET ner == EntityLoop(Locals(self), entities, ImportanceThreshold)
        llm == RelationLoop(EntityLoop(Locals(self), entities, ImportanceThreshold), relations)
    IN IF ~this.client
       THEN [self |-> self, saved |-> FALSE,
             result |-> ExtractResult("Client not available", <<>>, 0, <<>>)]
       ELSE IF ~needs_llm /\ entities # <<>>
       THEN [self |-> ner.graph, saved |-> ner.added_entities # <<>>,
             result |-> ExtractResult("none", ner.added_entities,
                                      Len(entities) - Len(ner.added_entities), <<>>)]
       ELSE IF outcome # "ok"
       THEN [self |-> self, saved |-> FALSE, result |-> ExtractResult(outcome, <<>>, 0, <<>>)]
       ELSE [self |-> llm.graph, saved |-> TRUE,
             result |-> ExtractResult("none", llm.added_entities, Len(llm.filtered_entities),
                                      llm.added_relations)]

\* lists of at most two extracted entities, at most one extracted relation
EntityLists ==
    {<<>>} \cup {<<e>> : e \in ExtractedEntities}
           \cup {<<e, f>> : e \in ExtractedEntities, f \in ExtractedEntities}

RelationLists == {<<>>} \cup {<<r>> : r \in ExtractedRelations}

CallExtractAndStore(needs_llm, outcome, entities, relations) ==
    /\ kg_count.save < MaxExtracts
    /\ LET call == ExtractAndStore(graph, rag, needs_llm, outcome, entities, relations)
       IN /\ graph' = call.self
          /\ graph_file' = IF call.saved THEN Save(call.self) ELSE graph_file
          /\ kg_saved' = IF call.saved THEN [document |-> Save(call.self), graph |-> call.self]
                         ELSE kg_saved
          /\ kg_count' = IF call.saved THEN [kg_count EXCEPT !.save = @ + 1] ELSE kg_count
          /\ kg_last' = GraphObserved("extract_and_store", NoArg, call.result)
    /\ UNCHANGED <<now, cbVars, caVars, coVars, arVars, memVars, rag, gcVars, gw, cd>>

NextExtract ==
    \E needs_llm \in BOOLEAN, outcome \in {"ok", "timeout"},
       entities \in EntityLists, relations \in RelationLists :
        CallExtractAndStore(needs_llm, outcome, entities, relations)

InitExtract == rag \in [client : BOOLEAN, config : {DefaultConfig}]

(***************************************************************************)
(* gemini_wrapper: get_gemini_wrapper and generate_content_sync            *)
(***************************************************************************)
\* None for the module globals; locks and wrappers are numbered from 1
NoObject == 0

\* timeout_seconds values
Timeouts == {1, 2}

\* the clock of the wrapper runs stops here
MaxGwTime == 4

\* no generate_content_sync call made yet
NoCall == [pc |-> "idle", stream |-> FALSE, started |-> 0, timeout |-> 0,
           worker |-> "none", error |-> "none", ended |-> 0]

\* one thread inside get_gemini_wrapper: position, the lock object its
\* with statement loaded, the value it returned
NotCalled == [pc |-> "start", lock |-> NoObject, ret |-> NoObject]

\* module state after import: both globals None
ModuleGlobals ==
    [singleton_wrapper |-> NoObject, singleton_lock |-> NoObject,
     locks |-> 0, held |-> {}, constructed |-> 0,
     th |-> [t \in Threads |-> NotCalled], call |-> NoCall]

RestGw == gw = ModuleGlobals

notGw == <<cbVars, caVars, coVars, arVars, memVars, kgVars, rag, gcVars, cd>>

At(t, pc) == gw.th[t].pc = pc

Goto(t, pc) == [gw EXCEPT !.th[t].pc = pc]

\* if _singleton_lock is None:
CheckLock(t) ==
    /\ At(t, "start")
    /\ gw' = Goto(t, IF gw.singleton_lock = NoObject THEN "make_lock" ELSE "check")
    /\ UNCHANGED <<now, notGw>>

\* _singleton_lock = threading.Lock()
MakeLock(t) ==
    /\ At(t, "make_lock")
    /\ gw' = [Goto(t, "check") EXCEPT !.locks = @ + 1, !.singleton_lock = gw.locks + 1]
    /\ UNCHANGED <<now, notGw>>

\* if _singleton_wrapper is None:
CheckWrapper(t) ==
    /\ At(t, "check")
    /\ gw' = Goto(t, IF gw.singleton_wrapper = NoObject THEN "load_lock" ELSE "return")
    /\ UNCHANGED <<now, notGw>>

\* with _singleton_lock: the global is read, then the object is acquired
LoadLock(t) ==
    /\ At(t, "load_lock")
    /\ gw' = [Goto(t, "acquire") EXCEPT !.th[t].lock = gw.singleton_lock]
    /\ UNCHANGED <<now, notGw>>

EnterLock(t) ==
    /\ At(t, "acquire")
    /\ gw.th[t].lock \notin gw.held
    /\ gw' = [Goto(t, "check2") EXCEPT !.held = @ \cup {gw.th[t].lock}]
    /\ UNCHANGED <<now, notGw>>

\* if _singleton_wrapper is None: (inside the with block)
CheckWrapperLocked(t) ==
    /\ At(t, "check2")
    /\ gw' = Goto(t, IF gw.singleton_wrapper = NoObject THEN "construct" ELSE "release")
    /\ UNCHANGED <<now, notGw>>

\* _singleton_wrapper = GenerativeModelWrapper()
Construct(t) ==
    /\ At(t, "construct")
    /\ gw' = [Goto(t, "release") EXCEPT !.constructed = @ + 1,
                                        !.singleton_wrapper = gw.constructed + 1]
    /\ UNCHANGED <<now, notGw>>

ExitLock(t) ==
    /\ At(t, "release")
    /\ gw' = [Goto(t, "return") EXCEPT !.held = @ \ {gw.th[t].lock}]
    /\ UNCHANGED <<now, notGw>>

\* return _singleton_wrapper
ReturnWrapper(t) ==
    /\ At(t, "return")
    /\ gw' = [Goto(t, "done") EXCEPT !.th[t].ret = gw.singleton_wrapper]
    /\ UNCHANGED <<now, notGw>>

GetGeminiWrapper(t) ==
    \/ CheckLock(t)
    \/ MakeLock(t)
    \/ CheckWrapper(t)
    \/ LoadLock(t)
    \/ EnterLock(t)
    \/ CheckWrapperLocked(t)
    \/ Construct(t)
    \/ ExitLock(t)
    \/ ReturnWrapper(t)

\* the deadline of the call in progress
Deadline(call) == call.started + call.timeout

\* generate_content_sync(contents, stream, timeout_seconds) on a wrapper:
\* a streaming call returns the stream at once, otherwise the SDK call is
\* submitted to a one-worker pool and future.result(timeout) waits
GenerateContentSync(stream, timeout_seconds) ==
    /\ gw.constructed > 0
    /\ gw.call.pc \in {"idle", "returned", "raised"}
    /\ gw' = [gw EXCEPT !.call =
                 IF stream
                 THEN [NoCall EXCEPT !.pc = "returned", !.stream = TRUE,
                                     !.started = now, !.timeout = timeout_seconds,
                                     !.ended = now]
                 ELSE [NoCall EXCEPT !.pc = "waiting", !.started = now,
                                     !.timeout = timeout_seconds,
                                     !.worker = "running"]]
    /\ UNCHANGED <<now, notGw>>

\* the SDK call in the worker thread ends, with a response or an exception
CallSdkEnds(outcome) ==
    /\ gw.call.worker = "running"
    /\ gw' = [gw EXCEPT !.call.worker = outcome]
    /\ UNCHANGED <<now, notGw>>

\* future.result returns or re-raises; leaving the with block calls
\* executor.shutdown(wait=True), which finds the worker idle
ResultReady ==
    /\ gw.call.pc = "waiting"
    /\ gw.call.worker \in {"done", "failed"}
    /\ gw' = [gw EXCEPT !.call.pc = IF gw.call.worker = "done" THEN "returned" ELSE "raised",
                        !.call.error = IF gw.call.worker = "done" THEN "none" ELSE "sdk",
                        !.call.ended = now]
    /\ UNCHANGED <<now, notGw>>

\* future.result(timeout) raises FuturesTimeoutError; TimeoutError is raised
\* inside the with block, whose exit is executor.shutdown(wait=True)
ResultTimesOut ==
    /\ gw.call.pc = "waiting"
    /\ gw.call.worker = "running"
    /\ now >= Deadline(gw.call)
    /\ gw' = [gw EXCEPT !.call.pc = "shutdown", !.call.error = "timeout"]
    /\ UNCHANGED <<now, notGw>>

\* shutdown(wait=True) joins the worker thread, then TimeoutError propagates
ShutdownJoined ==
    /\ gw.call.pc = "shutdown"
    /\ gw.call.worker # "running"
    /\ gw' = [gw EXCEPT !.call.pc = "raised", !.call.ended = now]
    /\ UNCHANGED <<now, notGw>>

\* a step the waiting caller takes as soon as it can
CallerReady ==
    \/ gw.call.pc = "waiting" /\ gw.call.worker # "running"
    \/ gw.call.pc = "waiting" /\ now >= Deadline(gw.call)
    \/ gw.call.pc = "shutdown" /\ gw.call.worker # "running"

\* time passes, unless the caller has a step to take now
GwTick ==
    /\ now < MaxGwTime
    /\ ~CallerReady
    /\ now' = now + 1
    /\ UNCHANGED <<gw, notGw>>

NextWrapper ==
    \/ \E t \in Threads : GetGeminiWrapper(t)
    \/ \E stream \in BOOLEAN, timeout_seconds \in Timeouts :
          GenerateContentSync(stream, timeout_seconds)
    \/ \E outcome \in {"done", "failed"} : CallSdkEnds(outcome)
    \/ ResultReady
    \/ ResultTimesOut
    \/ ShutdownJoined
    \/ GwTick

(***************************************************************************)
(* cache.py: the @cached decorator                                         *)
(***************************************************************************)
\* the coroutines that call the decorated function, each once
Callers == {"c1", "c2", "c3"}

\* the cache keys the calls' arguments build
CachedKeys == {"A", "B"}

\* a caller before its call: position in wrapper, the key built, whether the
\* key was absent and which callers were inside wrapper when it started,
\* whether cache.get hit, whether it awaited func, what it returned
NoCaller == [pc |-> "idle", cache_key |-> NoKey, cold |-> FALSE, overlaps |-> {},
             hit |-> FALSE, executed |-> FALSE, result |-> None]

\* cached(cache_name, ttl, maxsize): the cache of the decorator, no call made
Cached(maxsize, ttl) ==
    [cache |-> NewCache(maxsize, ttl),
     co |-> [c \in Callers |-> NoCaller],
     executions |-> [k \in CachedKeys |-> 0]]

RestCd == cd = Cached(1, 1)

InitCached == \E maxsize \in 1..MaxSize : cd = Cached(maxsize, MaxTtl)

notCd == <<now, cbVars, caVars, coVars, arVars, memVars, kgVars, rag, gcVars, gw>>

\* the callers that are inside wrapper
InWrapper == {c \in Callers : cd.co[c].pc \in {"get", "func", "set"}}

\* wrapper(*args): the cache key is built
WrapperCalled(c, key) ==
    /\ cd.co[c].pc = "idle"
    /\ cd' = [cd EXCEPT !.co[c] = [NoCaller EXCEPT !.pc = "get", !.cache_key = key,
                                                   !.cold = ~Contains(cd.cache.cache, key),
                                                   !.overlaps = InWrapper]]
    /\ UNCHANGED notCd

\* hit, cached_value = await cache.get(cache_key); if hit: return cached_value
WrapperGet(c) ==
    /\ cd.co[c].pc = "get"
    /\ LET got == Get(cd.cache, cd.co[c].cache_key, now) IN
       cd' = [cd EXCEPT !.cache = got.self,
                        !.co[c].hit = got.ret[1],
                        !.co[c].result = got.ret[2],
                        !.co[c].pc = IF got.ret[1] THEN "done" ELSE "func"]
    /\ UNCHANGED notCd

\* result = await func(*args, **kwargs)
WrapperFuncReturns(c, value) ==
    /\ cd.co[c].pc = "func"
    /\ cd' = [cd EXCEPT !.executions[cd.co[c].cache_key] = @ + 1,
                        !.co[c].executed = TRUE,
                        !.co[c].result = value,
                        !.co[c].pc = "set"]
    /\ UNCHANGED notCd

\* func raises: the exception leaves wrapper, nothing is stored
WrapperFuncRaises(c) ==
    /\ cd.co[c].pc = "func"
    /\ cd' = [cd EXCEPT !.executions[cd.co[c].cache_key] = @ + 1,
                        !.co[c].executed = TRUE,
                        !.co[c].pc = "raised"]
    /\ UNCHANGED notCd

\* await cache.set(cache_key, result); return result
WrapperSet(c) ==
    /\ cd.co[c].pc = "set"
    /\ cd' = [cd EXCEPT !.cache = Set(cd.cache, cd.co[c].cache_key, cd.co[c].result, now),
                        !.co[c].pc = "done"]
    /\ UNCHANGED notCd

NextCached ==
    \/ \E c \in Callers, key \in CachedKeys : WrapperCalled(c, key)
    \/ \E c \in Callers : WrapperGet(c)
    \/ \E c \in Callers, value \in CacheValues : WrapperFuncReturns(c, value)
    \/ \E c \in Callers : WrapperFuncRaises(c)
    \/ \E c \in Callers : WrapperSet(c)

RestLater == RestRag /\ RestGc /\ RestGw /\ RestCd

InitSpecCircuit == now = 0 /\ InitCircuit /\ RestCache /\ InitConn /\ InitArchive /\ RestMemory /\ InitGraph /\ RestLater

SpecCircuit == InitSpecCircuit /\ [][NextCircuit]_vars

InitSpecCache == now = 0 /\ InitCache /\ RestCircuit /\ InitConn /\ InitArchive /\ RestMemory /\ InitGraph /\ RestLater

SpecCache == InitSpecCache /\ [][NextCache]_vars

InitSpecConn == now = 0 /\ InitConn /\ RestCircuit /\ RestCache /\ InitArchive /\ RestMemory /\ InitGraph /\ RestLater

SpecConn == InitSpecConn /\ [][NextConn]_vars

InitSpecAppend == now = 0 /\ RestCircuit /\ RestCache /\ InitConn /\ InitArchive /\ RestMemory /\ InitGraph /\ RestLater

SpecAppend == InitSpecAppend /\ [][NextAppend]_vars

InitSpecSummarize == now = 0 /\ RestCircuit /\ RestCache /\ InitSummarize /\ RestMemory /\ InitGraph /\ RestLater

SpecSummarize == InitSpecSummarize /\ [][NextSummarize]_vars

InitSpecMemory == now = 0 /\ RestCircuit /\ RestCache /\ InitConn /\ InitArchive /\ InitMemory /\ InitGraph /\ RestLater

SpecMemory == InitSpecMemory /\ [][NextMemory]_vars

InitSpecGraph == now = 0 /\ RestCircuit /\ RestCache /\ InitConn /\ InitArchive /\ RestMemory /\ InitGraph /\ RestLater

SpecGraph == InitSpecGraph /\ [][NextGraph]_vars

InitSpecRelations == now = 0 /\ RestCircuit /\ RestCache /\ InitConn /\ InitArchive /\ RestMemory /\ InitGraph /\ RestLater

SpecRelations == InitSpecRelations /\ [][NextRelations]_vars

InitSpecWeights == now = 0 /\ RestCircuit /\ RestCache /\ InitConn /\ InitArchive /\ RestMemory /\ InitGraph /\ RestLater

SpecWeights == InitSpecWeights /\ [][NextWeights]_vars

InitSpecPersist == now = 0 /\ RestCircuit /\ RestCache /\ InitConn /\ InitArchive /\ RestMemory /\ InitGraph /\ RestLater

SpecPersist == InitSpecPersist /\ [][NextPersist]_vars

InitSpecTraverse == now = 0 /\ RestCircuit /\ RestCache /\ InitConn /\ InitArchive /\ RestMemory /\ InitTraverse /\ RestLater

SpecTraverse == InitSpecTraverse /\ [][NextTraverse]_vars

InitSpecQuery ==
    /\ now = 0 /\ RestCircuit /\ RestCache /\ InitConn /\ InitArchive /\ RestMemory
    /\ InitQuery /\ RestGc /\ RestGw /\ RestCd

SpecQuery == InitSpecQuery /\ [][NextQuery]_vars

InitSpecMaintain ==
    /\ now = 0 /\ RestCircuit /\ RestCache /\ InitConn /\ InitArchive /\ RestMemory /\ InitGraph
    /\ RestRag /\ InitMaintain /\ RestGw /\ RestCd

SpecMaintain == InitSpecMaintain /\ [][NextGc]_vars

InitSpecWrapper ==
    /\ now = 0 /\ RestCircuit /\ RestCache /\ InitConn /\ InitArchive /\ RestMemory /\ InitGraph
    /\ RestRag /\ RestGc /\ RestGw /\ RestCd

SpecWrapper == InitSpecWrapper /\ [][NextWrapper]_vars

InitSpecCached ==
    /\ now = 0 /\ RestCircuit /\ RestCache /\ InitConn /\ InitArchive /\ RestMemory /\ InitGraph
    /\ RestRag /\ RestGc /\ RestGw /\ InitCached

SpecCached == InitSpecCached /\ [][NextCached]_vars

InitSpecExtract ==
    /\ now = 0 /\ RestCircuit /\ RestCache /\ InitConn /\ InitArchive /\ RestMemory /\ InitGraph
    /\ InitExtract /\ RestGc /\ RestGw /\ RestCd

SpecExtract == InitSpecExtract /\ [][NextExtract]_vars

InitSpecDedup ==
    /\ now = 0 /\ RestCircuit /\ RestCache /\ InitConn /\ InitArchive /\ RestMemory /\ InitGraph
    /\ RestRag /\ InitDedup /\ RestGw /\ RestCd

SpecDedup == InitSpecDedup /\ [][NextDedup]_vars

(***************************************************************************)
(* Claims about the circuit breaker.  cb_last describes the step that led  *)
(* to the current state, so a formula over cb_last and the current fields  *)
(* relates the state before a call to the state after it.                  *)
(***************************************************************************)
LastCall(op, from) == cb_last.op = op /\ cb_last.pre.state = from

\* C1: from Closed, a record_failure opens the circuit exactly when it brings
\* the number of failures recorded since the most recent record_success (or
\* since the circuit became Closed) to failure_threshold; before that call,
\* and after every record_success in Closed, the circuit is Closed.
C1_OpensAtThreshold ==
    /\ circuit.state = CLOSED => g_consec < circuit.config.failure_threshold
    /\ LastCall("record_failure", CLOSED) =>
          /\ circuit.state \in {CLOSED, OPEN}
          /\ circuit.state = OPEN <=> g_consec = circuit.config.failure_threshold
    /\ LastCall("record_success", CLOSED) => circuit.state = CLOSED

\* C1 witness: with failure_threshold 2, a failure, a success and two more
\* failures have been recorded, and the last of them opened the circuit.
C1_Witness ==
    /\ LastCall("record_failure", CLOSED)
    /\ circuit.state = OPEN
    /\ circuit.config.failure_threshold = 2
    /\ circuit.stats.successful_calls = 1
    /\ circuit.stats.failed_calls = 3

\* C2: a can_execute in Open made less than timeout_seconds after the last
\* recorded failure returns false and leaves the circuit Open; one made at or
\* after the timeout returns true and leaves it HalfOpen with success_count 0;
\* no other step takes the circuit from Open to HalfOpen.
C2_OpenUntilTimeout ==
    /\ LastCall("can_execute", OPEN) =>
          IF now - g_lastFail < circuit.config.timeout_seconds
          THEN cb_last.ret = FALSE /\ circuit.state = OPEN
          ELSE cb_last.ret = TRUE /\ circuit.state = HALF_OPEN /\ circuit.success_count = 0
    /\ cb_last.pre.state = OPEN /\ circuit.state = HALF_OPEN => cb_last.op = "can_execute"

\* C2 witness: a can_execute made exactly timeout_seconds (2) after the last
\* failure, one failure having been recorded while the circuit was already Open.
C2_Witness ==
    /\ LastCall("can_execute", OPEN)
    /\ circuit.state = HALF_OPEN
    /\ circuit.config.timeout_seconds = 2
    /\ now - g_lastFail = 2
    /\ circuit.failure_count > circuit.config.failure_threshold

\* C2 second witness state: a can_execute refused one second before the timeout.
C2_WitnessRefused ==
    /\ LastCall("can_execute", OPEN)
    /\ cb_last.ret = FALSE
    /\ now - g_lastFail = circuit.config.timeout_seconds - 1

\* C3: in HalfOpen the calls admitted by can_execute and not yet completed by
\* record_success / record_failure never number more than half_open_max_calls.
C3_HalfOpenAdmissionBounded ==
    circuit.state = HALF_OPEN => g_admitted <= circuit.config.half_open_max_calls

\* C4: a record_success in HalfOpen closes the circuit exactly when it is the
\* success_threshold-th success since HalfOpen was entered; the failure counter
\* is then zero, and in Closed it counts the failures since the circuit closed
\* or last succeeded, so failure_threshold new failures are needed to reopen.
C4_ClosesAtSuccessThreshold ==
    /\ circuit.state = HALF_OPEN => g_hoSucc < circuit.config.success_threshold
    /\ LastCall("record_success", HALF_OPEN) =>
          IF g_hoSucc = circuit.config.success_threshold
          THEN circuit.state = CLOSED /\ circuit.failure_count = 0
          ELSE circuit.state = HALF_OPEN
    /\ circuit.state = CLOSED => circuit.failure_count = g_consec

\* C4 witness: the second success in HalfOpen closed a circuit whose
\* success_threshold is 2.
C4_Witness ==
    /\ LastCall("record_success", HALF_OPEN)
    /\ circuit.state = CLOSED
    /\ circuit.config.success_threshold = 2
    /\ g_hoSucc = 2

\* C5: a record_failure in HalfOpen leaves the circuit Open with the half-open
\* call counter at zero and the whole timeout to run from the time of the call:
\* can_execute is refused at every time before now + timeout_seconds.
C5_HalfOpenFailureReopens ==
    LastCall("record_failure", HALF_OPEN) =>
        /\ circuit.state = OPEN
        /\ circuit.half_open_calls = 0
        /\ circuit.last_failure_time = now
        /\ GetTimeoutRemaining(circuit, now) = circuit.config.timeout_seconds
        /\ \A t \in now..(now + circuit.config.timeout_seconds - 1) :
               ~CanExecute(circuit, t).ret
        /\ CanExecute(circuit, now + circuit.config.timeout_seconds).ret

\* C5 witness: a failure recorded in HalfOpen after a success was recorded there.
C5_Witness ==
    /\ LastCall("record_failure", HALF_OPEN)
    /\ g_hoSucc = 1
    /\ cb_last.pre.half_open_calls = -1

\* C6 as stated: no step takes the circuit from Closed to HalfOpen or from
\* HalfOpen to Closed.
C6_NoDirectClosedHalfOpen ==
    /\ ~(cb_last.pre.state = CLOSED /\ circuit.state = HALF_OPEN)
    /\ ~(cb_last.pre.state = HALF_OPEN /\ circuit.state = CLOSED)

\* C6 amended: no step takes the circuit from Closed to HalfOpen; a step from
\* HalfOpen to Closed is a record_success that reaches success_threshold, or a
\* reset.
C6_NoClosedToHalfOpen ==
    /\ ~(cb_last.pre.state = CLOSED /\ circuit.state = HALF_OPEN)
    /\ cb_last.pre.state = HALF_OPEN /\ circuit.state = CLOSED =>
          \/ cb_last.op = "reset"
          \/ cb_last.op = "record_success" /\ g_hoSucc = circuit.config.success_threshold

\* C6 witness: a can_execute in Closed, made when more than timeout_seconds
\* have passed since the last failure, left the circuit Closed.
C6_Witness ==
    /\ LastCall("can_execute", CLOSED)
    /\ circuit.state = CLOSED
    /\ g_lastFail # NoTime
    /\ now - circuit.last_failure_time >= circuit.config.timeout_seconds

(***************************************************************************)
(* Claims about the TTL cache.                                             *)
(***************************************************************************)
\* C7: with maxsize >= 1 the cache never holds more than maxsize entries; a set
\* that finds the cache full evicts exactly one entry, the least recently used
\* one, and a set that finds room evicts none, where a key becomes the most
\* recently used when it is inserted and on every get hit: the dictionary
\* order of the cache is that recency order.
C7_BoundedLruEviction ==
    /\ Len(ttlcache.cache) <= ttlcache.maxsize
    /\ KeysOf(ttlcache.cache) = g_lru
    /\ ca_last.op = "set" =>
          KeysOf(ca_last.gone) = IF ca_last.victim = NoKey THEN <<>> ELSE <<ca_last.victim>>

\* C7 witness: with maxsize 2, a set evicted an entry that was stored later than
\* the surviving older entry, which a get hit had made the more recently used.
C7_Witness ==
    /\ ca_last.op = "set"
    /\ ttlcache.maxsize = 2
    /\ Len(ca_last.gone) = 1
    /\ Len(ttlcache.cache) = 2
    /\ ttlcache.cache[1].timestamp < ca_last.gone[1].timestamp
    /\ ttlcache.cache[2].key = ca_last.key
    /\ ttlcache.stats.hits = 1

\* C8: a get(k) made less than ttl after the standing set(k, v) (no set(k),
\* invalidate(k), clear, expiry or eviction of k since) is a hit with v and
\* leaves the entry's time of storage as it was; any other get(k), one made ttl
\* or more after the set included, is a miss after which k is not in the cache.
C8_HitWithinTtlMissAfter ==
    ca_last.op = "get" =>
        LET k == ca_last.key
            st == ca_last.stood
        IN IF st # NoEntry /\ now - st.at < ttlcache.ttl
           THEN /\ ca_last.ret = <<TRUE, st.val>>
                /\ Contains(ttlcache.cache, k)
                /\ Item(ttlcache.cache, k) = [key |-> k, value |-> st.val, timestamp |-> st.at]
           ELSE /\ ca_last.ret = <<FALSE, None>>
                /\ ~Contains(ttlcache.cache, k)

\* C8 witness: a get made exactly ttl after the set found the entry, which an
\* earlier get had hit, expired and removed it.
C8_Witness ==
    /\ ca_last.op = "get"
    /\ ca_last.stood # NoEntry
    /\ now - ca_last.stood.at = ttlcache.ttl
    /\ ca_last.ret = <<FALSE, None>>
    /\ ttlcache.stats.hits = 1
    /\ ttlcache.stats.misses = 1
    /\ ttlcache.stats.evictions = 1
    /\ ttlcache.cache = <<>>

(***************************************************************************)
(* Claims about the connection manager.                                    *)
(***************************************************************************)
RowsOf(written) == {w.row : w \in written}

\* C9: a transaction() scope is all-or-nothing: the rows written by a scope
\* whose body completed are committed, and the rows written by a scope whose
\* body raised are seen by no statement afterwards.
C9_TransactionAllOrNothing ==
    /\ g_txDone \subseteq database
    /\ RowsOf(g_txRaised) \cap Visible = {}

\* What the code does for C9: the rows of completed transaction() bodies are
\* committed, and the rows of bodies that raised an exception derived from
\* Exception are seen by no statement afterwards.
TransactionAllOrNothingForException ==
    /\ g_txDone \subseteq database
    /\ RowsOf({w \in g_txRaised : IsException(w.raised)}) \cap Visible = {}

\* C10: the rows a get_connection() scope wrote and had not committed when its
\* body raised are seen by no statement afterwards.
C10_GetConnectionRollsBack ==
    RowsOf(g_getRaised) \cap Visible = {}

\* What the code does for C10: as C10, for exceptions derived from Exception.
GetConnectionRollsBackForException ==
    RowsOf({w \in g_getRaised : IsException(w.raised)}) \cap Visible = {}

Entered ==
    /\ co_last.op \in {"get_connection", "transaction"}
    /\ co_last.outcome = "ok"

InScope == {t \in Threads : scope[t].kind # "none"}

\* C11: the manager holds at most one open connection at any time; a scope
\* entered while a connection is open is given that connection; close() leaves
\* no connection open, and changes nothing when none was open; a scope entered
\* while none is open is given a connection made by a new sqlite3.connect call.
C11_SingleHandle ==
    /\ Cardinality(open_handles) <= 1
    /\ open_handles = IF manager.connection = NoConnection THEN {} ELSE {manager.connection.id}
    /\ (Entered /\ co_last.pre.connection # NoConnection) =>
          /\ manager.connection.id = co_last.pre.connection.id
          /\ scope[co_last.thread].handle = co_last.pre.connection.id
          /\ open_handles = co_last.open
    /\ (Entered /\ co_last.pre.connection = NoConnection) =>
          /\ manager.connection.id = next_id.handle - 1
          /\ scope[co_last.thread].handle = manager.connection.id
          /\ manager.connection.id \notin co_last.open
    /\ co_last.op = "close" =>
          /\ manager.connection = NoConnection
          /\ co_last.pre.connection = NoConnection =>
                manager = co_last.pre /\ open_handles = co_last.open

\* A scope was entered after a close(), and got the second connection.
C11_Witness ==
    /\ Entered
    /\ co_last.pre.connection = NoConnection
    /\ manager.connection.id = 2
    /\ open_handles = {2}

\* close() was called with no connection open.
C11_WitnessCloseTwice ==
    /\ co_last.op = "close"
    /\ co_last.pre.connection = NoConnection
    /\ next_id.handle = 2

\* C12: at most one thread is inside a scope; that thread owns the lock, and
\* the connection its scope was given is still the manager's open connection,
\* so no other thread has entered a scope or closed the connection meanwhile.
C12_ScopeHoldsHandle ==
    /\ Cardinality(InScope) <= 1
    /\ \A t \in InScope :
          /\ manager.lock.owner = t
          /\ manager.connection # NoConnection
          /\ manager.connection.id = scope[t].handle
          /\ scope[t].handle \in open_handles
          /\ co_last.thread = t

\* A thread is inside a transaction() scope and has written a row, after the
\* other thread had used and closed an earlier connection.
C12_Witness ==
    /\ scope["t1"].kind = "transaction"
    /\ scope["t1"].rows # {}
    /\ scope["t1"].handle = 2
    /\ scope["t2"].kind = "none"
    /\ co_last.op = "insert"

(***************************************************************************)
(* Claims about the session repository and the summarizer.                 *)
(***************************************************************************)
TurnIds(view, session) == {r.turn_id : r \in Select(view, "messages", session)}

Turns(rows) == {<<r.turn_id, r.msg>> : r \in rows}

SummaryOf(view, session) == {r.summary : r \in Select(view, "sessions", session)}

\* C14: a session's turns move as a unit.  In the stored tables every turn of
\* a session is in exactly one of messages and archived_messages, once; a
\* session with archived turns has all its turns archived and carries its
\* summary, and a session that carries a summary has no turn left in messages.
C14_TurnsMoveAsUnit ==
    \A session \in Sessions :
        LET active == Select(database, "messages", session)
            archived == Select(database, "archived_messages", session)
            all == {<<i - 1, g_appended[session][i]>> : i \in 1..Len(g_appended[session])}
        IN /\ Turns(active) \cap Turns(archived) = {}
           /\ Turns(active) \cup Turns(archived) = all
           /\ Cardinality(archived) = Cardinality(Turns(archived))
           /\ archived # {} => active = {} /\ SummaryOf(database, session) = {"ok"}
           /\ SummaryOf(database, session) = {"ok"} => active = {} /\ Turns(archived) = all

(***************************************************************************)
(* Claims about consolidation and the decay sweep.  mem_last describes the *)
(* pass that led to the current state.                                     *)
(***************************************************************************)
\* The rule of section 4.6 for a memory and its decayed importance.
DeletionRule(memory, decayed) ==
    /\ decayed < mem_config.DECAY_DELETE_THRESHOLD
    /\ memory.repetitions < 2
    /\ memory.access_count < 3

\* The evaluation batch of the last pass, and the part of it the rule deletes.
LastBatch ==
    {id \in MemIds : /\ mem_last.pre[id].stored /\ mem_last.pre[id].metadata
                     /\ ~mem_last.pre[id].preserved
                     /\ mem_last.pre[id].repetitions < mem_config.PRESERVE_REPETITIONS}

LastDeletable == {id \in LastBatch : DeletionRule(mem_last.pre[id], mem_last.decayed[id])}

\* The memories that were preserved, or that the last pass selected for preservation.
Protected ==
    {id \in MemIds :
        /\ mem_last.pre[id].stored
        /\ \/ mem_last.pre[id].preserved
           \/ /\ mem_last.op = "consolidate"
              /\ mem_last.pre[id].metadata
              /\ mem_last.pre[id].repetitions >= mem_config.PRESERVE_REPETITIONS}

\* C15: no pass, consolidation or decay sweep, deletes a memory that is
\* preserved or that the pass selects for preservation.
C15_PreservedNeverDeleted ==
    \A id \in Protected : store[id].stored

\* What the code does for C15: consolidation deletes no such memory.
ConsolidateKeepsPreserved ==
    mem_last.op = "consolidate" => \A id \in Protected : store[id].stored

\* C16: a stage of a consolidation pass that raises does not stop the later
\* stages: after a failed preserve update the deletable memories are deleted
\* and the survivors updated, after a failed delete the survivors are updated.
C16_StagesIndependent ==
    mem_last.op = "consolidate" =>
        /\ mem_last.raised = "preserve" =>
              /\ mem_last.delete_ids = LastDeletable
              /\ mem_last.update_ids = LastBatch \ LastDeletable
        /\ mem_last.raised = "delete" =>
              mem_last.update_ids = LastBatch \ LastDeletable

\* C17: a consolidation pass in which no call raises deletes exactly the
\* memories of its evaluation batch that the rule selects, updates exactly the
\* others of the batch to their decayed importance, and touches no id twice
\* and no memory outside the batch.
C17_PartitionsBatch ==
    (mem_last.op = "consolidate" /\ mem_last.raised = "none") =>
        /\ mem_last.delete_ids = LastDeletable
        /\ mem_last.update_ids = LastBatch \ LastDeletable
        /\ mem_last.delete_ids \cap mem_last.update_ids = {}
        /\ mem_last.deleted = Cardinality(LastDeletable)
        /\ \A id \in MemIds :
              /\ id \in LastDeletable => ~store[id].stored
              /\ id \in LastBatch \ LastDeletable =>
                    store[id] = [mem_last.pre[id] EXCEPT !.importance = mem_last.decayed[id]]
              /\ id \notin LastBatch =>
                    /\ store[id].stored = mem_last.pre[id].stored
                    /\ store[id].importance = mem_last.pre[id].importance

\* A pass deleted one memory and updated the other to a lower importance.
C17_Witness ==
    /\ mem_last.op = "consolidate"
    /\ mem_last.raised = "none"
    /\ mem_last.delete_ids = {"m1"}
    /\ mem_last.update_ids = {"m2"}
    /\ store["m2"].importance < mem_last.pre["m2"].importance

\* The decayed importance of a stored memory: the cached value, or the
\* importance when none is cached.
DecayedOf(memory) ==
    IF memory.decayed_importance # NoLevel THEN memory.decayed_importance ELSE memory.importance

\* C18: the decay sweep deletes a memory exactly when the consolidator's rule
\* would delete it.
C18_SweepMatchesConsolidator ==
    mem_last.op = "sweep" =>
        \A id \in MemIds :
            mem_last.pre[id].stored =>
                (~store[id].stored <=> DeletionRule(mem_last.pre[id], DecayedOf(mem_last.pre[id])))

(***************************************************************************)
(* Claims about the knowledge graph.                                       *)
(***************************************************************************)
\* The normalized (whitespace-collapsed, lowercased) name of a stored entity.
NormalizedName(id) == Lower(NormalizeEntityName(graph.entities[id].name))

\* C20: after any sequence of add_entity calls, also across a save and a
\* load, no two stored entities have the same normalized name.
C20_UniqueNormalizedNames ==
    \A a, b \in DOMAIN graph.entities : a # b => NormalizedName(a) # NormalizedName(b)

\* The same for a graph whose name index covers its entities (no load since
\* construction) and whose ids are not empty.
UniqueWhileIndexed ==
    (kg_count.load = 0 /\ "" \notin DOMAIN graph.entities) => C20_UniqueNormalizedNames

\* A step that is an add_entity call; kg_last' holds its argument and result.
AddEntityStep == kg_count'.add = kg_count.add + 1

\* The stored entities whose normalized lowercase name is that of the entity.
Matching(entity) ==
    {id \in DOMAIN graph.entities :
        NormalizedName(id) = Lower(NormalizeEntityName(entity.name))}

\* add_entity rejects the entity as a stopword concept.
Rejected(entity) ==
    entity.entity_type = "concept" /\ Lower(NormalizeEntityName(entity.name)) \in ENTITY_STOPWORDS

\* The type of a stored entity after it is merged with a new one.
MergedType(stored, new) == IF stored = "concept" /\ new # "concept" THEN new ELSE stored

\* An add_entity call merged its argument into a stored entity of the same name.
MergedIntoMatch ==
    /\ DOMAIN graph'.entities = DOMAIN graph.entities
    /\ \E id \in Matching(kg_last'.arg) :
          /\ kg_last'.result = id
          /\ graph'.entities[id].mentions = graph.entities[id].mentions + kg_last'.arg.mentions
          /\ graph'.entities[id].entity_type =
                MergedType(graph.entities[id].entity_type, kg_last'.arg.entity_type)

\* C21: when add_entity receives an entity (that it does not reject as a
\* stopword) whose normalized lowercase name matches a stored entity, the
\* number of entities is unchanged, the stored entity's mentions become the
\* sum of both, its type becomes the non-concept one when exactly one of the
\* two is concept, and the stored entity's id is returned.
C21_MergeOnMatch ==
    [][(AddEntityStep /\ Matching(kg_last'.arg) # {} /\ ~Rejected(kg_last'.arg))
          => MergedIntoMatch]_vars

\* The same for a graph whose name index covers its entities (no load since
\* construction) and whose ids are not empty.
MergeWhileIndexed ==
    [][(AddEntityStep /\ Matching(kg_last'.arg) # {} /\ ~Rejected(kg_last'.arg)
          /\ kg_count.load = 0 /\ "" \notin DOMAIN graph.entities)
          => MergedIntoMatch]_vars

\* A step that is an add_relation call; kg_last' holds its argument and result.
AddRelationStep == kg_count'.relation = kg_count.relation + 1

\* Both endpoints of every stored relation are stored entities.
EndpointsExist ==
    \A id \in DOMAIN graph.relations :
        /\ graph.relations[id].source_id \in DOMAIN graph.entities
        /\ graph.relations[id].target_id \in DOMAIN graph.entities

MissingEndpoint(relation) ==
    \/ relation.source_id \notin DOMAIN graph.entities
    \/ relation.target_id \notin DOMAIN graph.entities

\* C22: in every reachable state both endpoints of each stored relation are
\* keys of the entity map, and add_relation with a missing endpoint returns the
\* empty id and leaves relations, adjacency, the relation index, the
\* co-occurrence tally and the mention counts unchanged.
C22_EndpointsExist ==
    /\ []EndpointsExist
    /\ [][(AddRelationStep /\ MissingEndpoint(kg_last'.arg)) =>
            /\ kg_last'.result = NoRelationId
            /\ graph'.relations = graph.relations
            /\ graph'.adjacency = graph.adjacency
            /\ graph'.relation_index = graph.relation_index
            /\ graph'.cooccurrence = graph.cooccurrence
            /\ graph'.entity_mentions = graph.entity_mentions]_vars

\* add_relation was refused for a missing endpoint on a graph that holds a relation.
C22_Witness ==
    /\ kg_last.op = "add_relation"
    /\ kg_last.result = NoRelationId
    /\ kg_last.arg.source_id \in DOMAIN graph.entities
    /\ kg_last.arg.target_id \notin DOMAIN graph.entities
    /\ DOMAIN graph.relations # {}

\* The only activity on the relations so far is add_relation calls for one triple.
OnlyAdded(id) ==
    /\ DOMAIN kg_count.returned = {id}
    /\ kg_count.relation = kg_count.returned[id]
    /\ kg_count.load = 0
    /\ kg_count.recalculate = 0

\* C23: after the same relation was added n >= 1 times to a graph that holds
\* both endpoints, with no other activity, there is exactly one relation for
\* the triple, the co-occurrence tally of the endpoint pair is n and the
\* mention count of each endpoint is at least n.
C23_TallyCountsAdds ==
    \A id \in DOMAIN kg_count.returned :
        OnlyAdded(id) =>
            LET n == kg_count.returned[id]
                source == id[1]
                target == id[3]
            IN /\ DOMAIN graph.relations = {id}
               /\ DictGet(graph.cooccurrence, SortedPair(source, target), 0) = n
               /\ \A e \in {source, target} :
                     \/ DictGet(graph.entity_mentions, e, 0) >= n
                     \/ graph.entities[e].mentions >= n

\* What the code does for the tally: the first add of a triple is not counted.
TallyCountsReAdds ==
    \A id \in DOMAIN kg_count.returned :
        OnlyAdded(id) =>
            /\ DOMAIN graph.relations = {id}
            /\ DictGet(graph.cooccurrence, SortedPair(id[1], id[3]), 0) = kg_count.returned[id] - 1

\* C24: while every add_relation call supplies a weight in [0,1], every
\* stored relation's weight is in [0,1].
C24_WeightsInRange ==
    kg_count.outside = 0 =>
        \A id \in DOMAIN graph.relations : InRange(graph.relations[id].weight)

\* C25: immediately after recalculate_weights returns, every relation's
\* weight is in [0,1], whatever the weights were before the call.
C25_RecalculatedInRange ==
    kg_last.op = "recalculate_weights" =>
        \A id \in DOMAIN graph.relations : InRange(graph.relations[id].weight)

\* What holds after recalculate_weights: each weight is within the change
\* threshold of its clamped new value.
RecalculatedNearRange ==
    kg_last.op = "recalculate_weights" =>
        \A id \in DOMAIN graph.relations :
            /\ 0 - ChangeThreshold <= graph.relations[id].weight
            /\ graph.relations[id].weight <= WeightOne + ChangeThreshold

\* The graph was loaded from the document of the last completed save.
LoadedFromSaved ==
    /\ kg_last.op = "load"
    /\ graph_file = kg_saved.document
    /\ graph_file.complete

\* C26: save followed by loading a new graph from the same path yields the
\* same entities, relations, co-occurrence map and mention counts, for every
\* entity id string.
C26_SaveLoadRoundTrip ==
    LoadedFromSaved =>
        /\ graph.entities = kg_saved.graph.entities
        /\ graph.relations = kg_saved.graph.relations
        /\ graph.cooccurrence = kg_saved.graph.cooccurrence
        /\ graph.entity_mentions = kg_saved.graph.entity_mentions

\* What the round trip does preserve: everything but the keys of the tally.
RoundTripButTally ==
    LoadedFromSaved =>
        /\ graph.entities = kg_saved.graph.entities
        /\ graph.relations = kg_saved.graph.relations
        /\ graph.entity_mentions = kg_saved.graph.entity_mentions
        /\ Cardinality(DOMAIN graph.cooccurrence) = Cardinality(DOMAIN kg_saved.graph.cooccurrence)

\* C27: whatever happens to a save, the file holds the complete document of
\* the last completed save (or of the new one), and a load that follows
\* recovers the entities of that document.
C27_SaveIsAtomic ==
    /\ graph_file = kg_saved.document
    /\ kg_last.op = "load" => graph.entities = kg_saved.graph.entities

\* The same while no save was interrupted.
SavedWhileUninterrupted ==
    kg_count.interrupted = 0 => C27_SaveIsAtomic

\* The stored relations incident to an entity.
Incident(entity_id) ==
    {id \in DOMAIN graph.relations :
        graph.relations[id].source_id = entity_id \/ graph.relations[id].target_id = entity_id}

\* The other endpoints of the stored relations incident to an entity.
Adjacent(entity_id) ==
    {graph.relations[id].target_id : id \in {r \in DOMAIN graph.relations :
                                               graph.relations[r].source_id = entity_id}}
    \cup {graph.relations[id].source_id : id \in {r \in DOMAIN graph.relations :
                                                    graph.relations[r].target_id = entity_id}}

Elements(list) == {list[i] : i \in DOMAIN list}

IndexesAgree ==
    \A entity_id \in DOMAIN graph.entities :
        /\ DictGet(graph.adjacency, entity_id, {}) = Adjacent(entity_id)
        /\ Elements(GetRelationsForEntity(graph, entity_id)) = Incident(entity_id)
        /\ DictGet(graph.name_index, NormalizedName(entity_id), None) = entity_id

\* C28: in every reachable state, also right after a load, adjacency holds
\* exactly the endpoint pairs of the stored relations in both directions, the
\* relation index lists for each entity exactly its incident relations, and
\* the name index maps each entity's normalized lowercase name to its id.
C28_IndexesAgree == IndexesAgree

\* The same for a graph that was not loaded, and after a load for adjacency.
IndexesAgreeUnloaded ==
    /\ kg_count.load = 0 => IndexesAgree
    /\ \A entity_id \in DOMAIN graph.entities :
          DictGet(graph.adjacency, entity_id, {}) = Adjacent(entity_id)

(***************************************************************************)
(* Claims about the traversals.  Distances are taken in the undirected     *)
(* graph of the stored relations.                                          *)
(***************************************************************************)
\* The entities at most the given number of hops from an entity.
RECURSIVE Within(_, _)
Within(entity_id, hops) ==
    IF hops = 0 THEN {entity_id}
    ELSE Within(entity_id, hops - 1)
         \cup UNION {Adjacent(node) : node \in Within(entity_id, hops - 1)}

Stored(entity_id) == entity_id \in DOMAIN graph.entities

\* C29: get_neighbors(id, depth) returns exactly the entities whose shortest
\* distance from id is between 1 and depth; the result never contains id and
\* is empty when id is not a stored entity or depth is 0.
C29_NeighborsWithinDepth ==
    kg_last.op = "get_neighbors" =>
        LET entity_id == kg_last.arg.entity_id
            depth == kg_last.arg.depth
        IN /\ kg_last.result = IF Stored(entity_id) THEN Within(entity_id, depth) \ {entity_id}
                                                    ELSE {}
           /\ entity_id \notin kg_last.result
           /\ (depth = 0 \/ ~Stored(entity_id)) => kg_last.result = {}

\* get_neighbors at depth 2 from an entity on a cycle with a loop returned an
\* entity two hops away and not the start.
C29_Witness ==
    /\ kg_last.op = "get_neighbors"
    /\ kg_last.arg = [entity_id |-> "a", depth |-> 2]
    /\ <<"a", "knows", "a">> \in DOMAIN graph.relations
    /\ <<"e1", "knows", "a">> \notin DOMAIN graph.relations
    /\ kg_last.result = {"b", "e1"}
    /\ Stored("e2")

\* A list of entities is a path of the graph from source to target.
IsPath(path, source_id, target_id) ==
    /\ path # <<>>
    /\ path[1] = source_id
    /\ path[Len(path)] = target_id
    /\ \A i \in 1..(Len(path) - 1) : path[i + 1] \in Adjacent(path[i])

\* C30: find_path returns a path from source to target with the minimum
\* number of hops whenever target is reachable within max_depth hops, and the
\* empty list when an endpoint is not stored, the two are disconnected, or the
\* shortest path needs more than max_depth hops.
C30_ShortestPath ==
    kg_last.op = "find_path" =>
        LET source_id == kg_last.arg.source_id
            target_id == kg_last.arg.target_id
            max_depth == kg_last.arg.max_depth
            path == kg_last.result
        IN IF Stored(source_id) /\ Stored(target_id) /\ target_id \in Within(source_id, max_depth)
           THEN /\ IsPath(path, source_id, target_id)
                /\ target_id \in Within(source_id, Len(path) - 1)
                /\ \A hops \in 0..(Len(path) - 2) : target_id \notin Within(source_id, hops)
           ELSE path = <<>>

\* find_path found a path of three hops, the most max_depth allowed.
C30_Witness ==
    /\ kg_last.op = "find_path"
    /\ kg_last.arg = [source_id |-> "a", target_id |-> "e2", max_depth |-> 3]
    /\ kg_last.result = <<"a", "b", "e1", "e2">>

(***************************************************************************)
(* GraphRAG queries                                                        *)
(***************************************************************************)
\* C31: query and query_sync return at most max_entities entities and at
\* most config.max_relations relations, and query at most config.max_paths
\* paths: the synchronous path applies the configured relation cap too.
C31_QueryCaps ==
    kg_last.op \in {"query", "query_sync"} =>
        /\ Len(kg_last.result.entities) <= kg_last.arg.max_entities
        /\ Len(kg_last.result.relations) <= rag.config.max_relations
        /\ Len(kg_last.result.paths) <= rag.config.max_paths

\* What holds: query keeps the configured caps, query_sync keeps max_entities
\* and its own cap of ten relations, and returns no paths.
QueryCapsButSync ==
    /\ kg_last.op = "query" =>
            /\ Len(kg_last.result.entities) <= kg_last.arg.max_entities
            /\ Len(kg_last.result.relations) <= rag.config.max_relations
            /\ Len(kg_last.result.paths) <= rag.config.max_paths
    /\ kg_last.op = "query_sync" =>
            /\ Len(kg_last.result.entities) <= kg_last.arg.max_entities
            /\ Len(kg_last.result.relations) <= SyncRelationCap
            /\ kg_last.result.paths = <<>>

\* a query that found more relations than it returned, and paths
QueryTruncates ==
    /\ kg_last.op = "query"
    /\ Len(kg_last.result.relations) = rag.config.max_relations
    /\ Len(kg_last.result.paths) = rag.config.max_paths
    /\ Len(kg_last.result.paths) > 0
    /\ Len(kg_last.result.entities) = kg_last.arg.max_entities

(***************************************************************************)
(* Maintenance runs                                                        *)
(***************************************************************************)
\* the phases the loop of cmd_full is through with
Finished == {phase \in 1..8 : phase < gc_run.pc}

\* the phase returned a result, and not the result that says it was skipped
DidWork(phase) ==
    /\ phase \in DOMAIN gc_run.results
    /\ "skipped" \notin DOMAIN gc_run.results[phase]

InOrder == gc_run.started = [i \in 1..Len(gc_run.started) |-> i]

\* C32: in a full run the phases are started in the order 1 to 8, each at
\* most once; a phase that raises is in the error list; every phase whose
\* own statements the server accepts does its work, whatever happened in
\* the phases before it; and the run ends with its summary.
C32_PhasesIndependent ==
    /\ InOrder
    /\ \A phase \in Finished :
          /\ phase \in Ids(gc_run.started)
          /\ phase \notin DOMAIN gc_run.results => phase \in Ids(gc_run.gc_errors)
          /\ phase \notin gc_run.rejected => DidWork(phase)
    /\ gc_run.pc = 10 => gc_run.summary

\* What holds: the order, the error list and the summary; a phase that did
\* not do its work although the server accepted its statements comes after
\* a rejected phase on the same connection, with no phase 5 in between to
\* roll the transaction back.
PhasesButAborted ==
    /\ InOrder
    /\ \A phase \in Finished :
          /\ phase \in Ids(gc_run.started)
          /\ (phase \in DOMAIN gc_run.results) # (phase \in Ids(gc_run.gc_errors))
          /\ phase \notin gc_run.rejected /\ ~DidWork(phase) =>
                \E earlier \in gc_run.rejected \ {5} :
                    /\ earlier < phase /\ phase <= 7
                    /\ ~(earlier < 5 /\ 5 < phase)
    /\ gc_run.pc = 10 => gc_run.summary /\ gc_run.started = <<1, 2, 3, 4, 5, 6, 7, 8>>

\* a run in which a phase raised and the next one did its work
ErrorThenWork ==
    /\ gc_run.pc = 10
    /\ gc_run.gc_errors = <<7>>
    /\ DidWork(8)

\* the rows of a table that an operation changed or deleted
Changed(before, after) ==
    Cardinality({id \in DOMAIN before : id \notin DOMAIN after \/ after[id] # before[id]})

\* generate_content calls that give a summary at once
GoodAttempts(db) ==
    [id \in DOMAIN db.messages |-> <<Attempt(FALSE, <<"t", "i", "t", "i", "t">>)>>]

\* phase7_kg_cleanup, not dry: the tables after its statements
Phase7Tables(db) ==
    DeleteOrphanRelations(DeleteWeakRelations(DeleteStaleEntities(DeleteStaleRelations(db))))

\* the counts of the dry phases 1 to 6 are the numbers of rows the phase changes
DryCounts(db, results) ==
    /\ 1 \in DOMAIN results =>
          /\ results[1].messages_updated
                = Changed(db.messages, Phase1EmojiStrip(db, FALSE).db.messages)
          /\ results[1].memories_updated
                = Changed(db.memories, Phase1EmojiStrip(db, FALSE).db.memories)
    /\ 2 \in DOMAIN results =>
          results[2].candidates
            = Changed(db.messages, Phase2LlmSummarize(db, FALSE, TRUE, GoodAttempts(db)).db.messages)
    /\ 3 \in DOMAIN results =>
          \A rows \in RowOrders :
              results[3].duplicates = Changed(db.memories, Phase3HashDedup(db, FALSE, rows).db.memories)
    /\ 4 \in DOMAIN results =>
          results[4].deleted = Changed(db.memories, Phase4DecayCleanupRun(db, FALSE).db.memories)
    /\ 5 \in DOMAIN results /\ "skipped" \notin DOMAIN results[5] =>
          results[5].deleted
            = Changed(db.archived_messages, Phase5ArchiveCleanup(db, FALSE).db.archived_messages)
    /\ 6 \in DOMAIN results =>
          results[6].deleted
            = Changed(db.memory_access_patterns,
                      Phase6MetaCleanup(db, FALSE).db.memory_access_patterns)
    /\ 7 \in DOMAIN results =>
          results[7].entities_deleted = Changed(db.entities, Phase7Tables(db).entities)

\* the relation counts of the dry phase 7 are the number of relations the phase deletes
DryRelationCounts(db, results) ==
    7 \in DOMAIN results =>
        results[7].relations_weak + results[7].relations_orphan
          = Changed(db.relations, Phase7Tables(db).relations)

\* C33: with dry_run set no step of the run changes a table, commits, calls
\* the LLM or vacuums, and each phase reports the number of rows it would
\* have changed.
C33_DryRunChangesNothing ==
    /\ [](gc_run.dry_run =>
            DryCounts(gc_db.view, gc_run.results) /\ DryRelationCounts(gc_db.view, gc_run.results))
    /\ [][gc_run.dry_run => gc_db' = gc_db]_vars

\* What holds: nothing is changed, and the counts are right except the
\* relation counts of phase 7.
DryRunButRelationCounts ==
    /\ [](gc_run.dry_run => DryCounts(gc_db.view, gc_run.results))
    /\ [][gc_run.dry_run => gc_db' = gc_db]_vars

\* a dry run that went through every phase on tables in which every phase has rows to change
DryRunOfAll ==
    /\ gc_run.pc = 10 /\ gc_run.dry_run /\ gc_run.gc_errors = <<>>
    /\ \A phase \in 1..6 : \E field \in DOMAIN gc_run.results[phase] :
          gc_run.results[phase][field] > 0
    /\ gc_run.results[7].entities_deleted > 0

\* the memories of the table before the phase that hash like the given one
HashGroup(pre, id) == {other \in DOMAIN pre : ContentHash(pre[other].content) = ContentHash(pre[id].content)}

\* after a phase 3 that was not dry: of every group one memory is left,
\* unchanged, and no other memory of the group ranks above it
OneLeftPerGroup(Rank(_)) ==
    gc_last.op = "phase3_hash_dedup" /\ ~gc_last.dry_run =>
        \A id \in DOMAIN gc_last.pre :
            LET group == HashGroup(gc_last.pre, id)
                left == group \cap DOMAIN gc_db.view.memories
            IN /\ Cardinality(left) = 1
               /\ \A kept \in left :
                     /\ gc_db.view.memories[kept] = gc_last.pre[kept]
                     /\ \A other \in group : Rank(gc_last.pre[other]) <= Rank(gc_last.pre[kept])

StoredImportance(row) == row.importance

RankedImportance(row) == SortKey(row.importance)

\* C34: after the hash-dedup phase exactly one memory of every group of
\* equal content hash remains, one whose stored importance is the maximum
\* of the group, also for importance 0; memories with a unique hash are
\* untouched.
C34_DedupKeepsMostImportant == OneLeftPerGroup(StoredImportance)

\* What holds: the memory left has the greatest importance of its group
\* when importance 0 is read as 0.5.
DedupKeepsGreatestOrDefault == OneLeftPerGroup(RankedImportance)

\* a phase 3 that deleted a duplicate and left a memory with a unique hash
DedupDeleted ==
    /\ gc_last.op = "phase3_hash_dedup" /\ ~gc_last.dry_run
    /\ gc_last.result.duplicates = 1
    /\ Cardinality(DOMAIN gc_db.view.memories) = 2

\* phase 7 of a run that is not dry has just returned
Phase7Returned ==
    /\ gc_last.op = "Phase 7" /\ ~gc_last.raised
    /\ gc_run.pc = 8 /\ ~gc_run.dry_run

\* C35: after a graph-cleanup phase that was not dry no stale entity
\* remains and every remaining relation has weight >= 0.1 and both its
\* endpoints; and no step of the phase deletes an entity that a relation
\* still references.
C35_GraphCleanup ==
    /\ [](Phase7Returned =>
            /\ Rows(gc_db.view.entities, Stale) = {}
            /\ \A id \in DOMAIN gc_db.view.relations :
                  /\ gc_db.view.relations[id].weight >= WeakWeight
                  /\ gc_db.view.relations[id].source_id \in DOMAIN gc_db.view.entities
                  /\ gc_db.view.relations[id].target_id \in DOMAIN gc_db.view.entities)
    /\ [][gc_run.pc = 7 =>
            \A entity \in DOMAIN gc_db.view.entities \ DOMAIN gc_db'.view.entities :
                \A id \in DOMAIN gc_db.view.relations :
                    /\ gc_db.view.relations[id].source_id # entity
                    /\ gc_db.view.relations[id].target_id # entity]_vars

\* a phase 7 that deleted stale entities and weak relations, committed, and left a relation
C35_Witness ==
    /\ Phase7Returned
    /\ gc_run.results[7].entities_deleted > 0
    /\ gc_run.results[7].relations_weak > 0
    /\ gc_db.committed.relations # <<>>
    /\ Cardinality(DOMAIN gc_db.committed.entities) = 1

(***************************************************************************)
(* TTLCache.set on a key that is present                                   *)
(***************************************************************************)
\* the step is a set on a key that was in the cache before it
SetOnPresent(key) ==
    /\ ca_last'.op = "set" /\ ca_last'.key = key
    /\ Contains(ttlcache.cache, key)

\* C37: a set(k, v) on a key k that is in the cache replaces k's value and
\* removes no other key, also when the cache is at capacity.
C37_SetOnPresentKeepsOthers ==
    [][\A key \in CacheKeys :
          SetOnPresent(key) =>
              /\ Contains(ttlcache'.cache, key)
              /\ Item(ttlcache'.cache, key).value = g_set'[key].val
              /\ \A other \in SeqToSet(KeysOf(ttlcache.cache)) : Contains(ttlcache'.cache, other)]_vars

\* What holds: the value is replaced, and no other key is removed when the
\* cache is below capacity.
SetOnPresentBelowCapacity ==
    [][\A key \in CacheKeys :
          SetOnPresent(key) =>
              /\ Contains(ttlcache'.cache, key)
              /\ Item(ttlcache'.cache, key).value = g_set'[key].val
              /\ Len(ttlcache.cache) < ttlcache.maxsize =>
                    \A other \in SeqToSet(KeysOf(ttlcache.cache)) : Contains(ttlcache'.cache, other)]_vars

(***************************************************************************)
(* generate_content_sync and its deadline                                  *)
(***************************************************************************)
\* a non-streaming call has been made
Called == gw.call.pc # "idle" /\ ~gw.call.stream

\* the caller has control again
BackWithCaller == gw.call.pc \in {"returned", "raised"}

\* C36: a non-streaming generate_content_sync call returns control to its
\* caller no later than its deadline: the caller is never still inside the
\* call after started + timeout_seconds, and a call that ended did so by then.
C36_ReturnsByDeadline ==
    Called =>
        IF BackWithCaller
        THEN gw.call.ended <= Deadline(gw.call)
        ELSE now <= Deadline(gw.call)

\* What holds: a result that is ready by the deadline is handed over by the
\* deadline, the timeout error is never raised before the deadline, and after
\* the deadline the caller is held only by the shutdown of the worker pool.
ReturnsByDeadlineOrJoins ==
    Called =>
        /\ BackWithCaller /\ gw.call.error # "timeout" => gw.call.ended <= Deadline(gw.call)
        /\ gw.call.error = "timeout" => now >= Deadline(gw.call)
        /\ ~BackWithCaller /\ now > Deadline(gw.call) => gw.call.pc = "shutdown"

\* the deadline has passed and the caller is still inside the call
HeldPastDeadline ==
    Called /\ gw.call.pc = "shutdown" /\ now > Deadline(gw.call)

(***************************************************************************)
(* get_gemini_wrapper as a singleton                                       *)
(***************************************************************************)
\* C39: under any interleaving of concurrent first calls of
\* get_gemini_wrapper, exactly one GenerativeModelWrapper is constructed and
\* every caller receives that same instance.
C39_OneWrapper ==
    /\ gw.constructed <= 1
    /\ \A t \in Threads : At(t, "done") => gw.constructed = 1 /\ gw.th[t].ret = 1
    /\ \A t, u \in Threads : At(t, "done") /\ At(u, "done") => gw.th[t].ret = gw.th[u].ret

\* What holds: every caller receives a constructed wrapper, and there are
\* never more wrappers than lock objects.
OneWrapperPerLock ==
    /\ gw.constructed <= gw.locks
    /\ \A t \in Threads : At(t, "done") => gw.th[t].ret \in 1..gw.constructed

\* both threads have returned, each with a different wrapper
TwoWrappers ==
    /\ \A t \in Threads : At(t, "done")
    /\ \E t, u \in Threads : gw.th[t].ret # gw.th[u].ret

(***************************************************************************)
(* @cached under concurrent callers                                        *)
(***************************************************************************)
\* two calls with the same key that both started while the key was absent
\* and of which one started while the other was inside wrapper
ConcurrentCold(c, d) ==
    /\ c # d
    /\ cd.co[c].pc # "idle" /\ cd.co[d].pc # "idle"
    /\ cd.co[c].cache_key = cd.co[d].cache_key
    /\ cd.co[c].cold /\ cd.co[d].cold
    /\ c \in cd.co[d].overlaps \/ d \in cd.co[c].overlaps

\* C38: for concurrent calls of a @cached function with the same cache key
\* that all start while the key is absent, the wrapped function is executed
\* only once and every caller receives that one result.
C38_SingleExecution ==
    \A c, d \in Callers :
        ConcurrentCold(c, d) =>
            /\ ~(cd.co[c].executed /\ cd.co[d].executed)
            /\ cd.co[c].pc = "done" /\ cd.co[d].pc = "done" =>
                  cd.co[c].result = cd.co[d].result

\* What holds: a caller awaits func exactly when its cache.get missed, each
\* execution belongs to one caller, and a hit returns what some other caller
\* with that key got from func.
ExecutionPerMiss ==
    /\ \A c \in Callers :
          cd.co[c].pc \in {"set", "done", "raised"} =>
              /\ cd.co[c].executed = ~cd.co[c].hit
              /\ cd.co[c].hit =>
                    \E d \in Callers \ {c} :
                        /\ cd.co[d].cache_key = cd.co[c].cache_key
                        /\ cd.co[d].executed
                        /\ cd.co[d].result = cd.co[c].result
    /\ \A k \in CachedKeys :
          cd.executions[k] = Cardinality({c \in Callers : cd.co[c].cache_key = k /\ cd.co[c].executed})

\* two concurrent cold calls have both run func and returned different results
ExecutedTwice ==
    \E c, d \in Callers :
        /\ ConcurrentCold(c, d)
        /\ cd.co[c].pc = "done" /\ cd.co[d].pc = "done"
        /\ cd.co[c].executed /\ cd.co[d].executed
        /\ cd.co[c].result # cd.co[d].result

(***************************************************************************)
(* extract_and_store: the ids it reports                                   *)
(***************************************************************************)
\* the last step was an extract_and_store that returned without an error entry
Extracted == kg_last.op = "extract_and_store" /\ kg_last.result.error = "none"

\* C40: every id in the entities and relations lists returned by a
\* successful extract_and_store names an entity or relation that is stored
\* in the graph when the call returns.
C40_ReportedIdsStored ==
    Extracted =>
        /\ \A id \in SeqToSet(kg_last.result.entities) : id \in DOMAIN graph.entities
        /\ \A id \in SeqToSet(kg_last.result.relations) : id \in DOMAIN graph.relations

\* What holds: the counts are the lengths of the lists, and every entity and
\* relation that the call stored under a new id is in the lists.
StoredIdsReported ==
    [][kg_last'.op = "extract_and_store" /\ kg_last'.result.error = "none" =>
          /\ kg_last'.result.entities_added = Len(kg_last'.result.entities)
          /\ kg_last'.result.relations_added = Len(kg_last'.result.relations)
          /\ DOMAIN graph'.entities \ DOMAIN graph.entities
                \subseteq SeqToSet(kg_last'.result.entities)
          /\ DOMAIN graph'.relations \ DOMAIN graph.relations
                \subseteq SeqToSet(kg_last'.result.relations)]_vars

\* a successful call reports an entity id and a relation id that are not stored
ReportedNotStored ==
    /\ Extracted
    /\ \E id \in SeqToSet(kg_last.result.entities) : id \notin DOMAIN graph.entities
    /\ \E id \in SeqToSet(kg_last.result.relations) : id \notin DOMAIN graph.relations

====
